---- MODULE Spec2Model ----
(***************************************************************************)
(* Token lifecycle of MyQAPI (src/myq_api.py) and the entry points that    *)
(* drive it.  One coroutine per task; every action is the code that runs   *)
(* between two suspension points (network awaits, sleeps, lock waits).     *)
(***************************************************************************)
EXTENDS Integers, Sequences, FiniteSets, TLC

\* ------------------------------------------------------------------ bounds
NumTasks == 2
MaxTicks == 1
TickLen == 60
MaxIssued == 3
\* the limiter's clock moves in steps of RateStep, MaxRateTicks times; client
\* IPs other than the first make MaxOther requests in all
RateStep == 30
MaxRateTicks == 3
MaxOther == 2
\* the capture proxy is followed for MaxCaptures saves of the token file
MaxCaptures == 3

Tasks == 1..NumTasks

\* ------------------------------------------------------- program constants
GraceWindow == 300
ExpirySkew == 60
DefaultExpiresIn == 1800
MaxRetries == 3
BackoffUnit == 60
DefaultScope == "MyQ_Residential offline_access"
NarrowScope == "MyQ_Residential"
EmptyStr == ""
NoToken == 0

\* self.tokens = None
None == [none |-> TRUE]

\* the token file does not exist
NoFile == [missing |-> TRUE]

TokenInfo(at, rt, exp, acct, serial, cf, scope) ==
    [access_token |-> at, refresh_token |-> rt, expires_at |-> exp,
     account_id |-> acct, device_serial |-> serial, cf_cookie |-> cf,
     token_scope |-> scope]

\* values the provider may use
Scopes == {DefaultScope, NarrowScope}
Cookies == {"__cf_bm=c1", "__cf_bm=c2"}

\* expires_in of a token response: absent, not a number, or a number of seconds
Absent == [kind |-> "absent"]
Malformed == [kind |-> "bad"]
Secs(n) == [kind |-> "int", v |-> n]
ExpiresIns == {Absent, Malformed, Secs(30), Secs(360)}

\* result.get('expires_in', 1800)
GetExpiresIn(ei) == IF ei = Absent THEN Secs(DefaultExpiresIn) ELSE ei

\* time.time() + expires_in - 60 (a TypeError when expires_in is no number)
ExpiresAt(t, ei) == t + GetExpiresIn(ei).v - ExpirySkew

\* body of a token response (status 200, JSON): which fields it has
TokenBody(at, rt, ei, sc) == [at |-> at, rt |-> rt, ei |-> ei, scope |-> sc]
AllTokenBodies ==
    {TokenBody(TRUE, TRUE, e, EmptyStr) : e \in ExpiresIns}
    \cup {TokenBody(FALSE, TRUE, Absent, EmptyStr),
          TokenBody(TRUE, FALSE, Secs(360), EmptyStr),
          TokenBody(TRUE, TRUE, Absent, NarrowScope)}

HtmlKinds == {"form", "challenge", "notoken"}

\* mode: "seq"  = one caller, one call after the other, every provider behaviour;
\*       "lock" = overlapping calls of _ensure_valid_token, every provider behaviour;
\*       "conc" = overlapping calls of every entry point, the provider answers
\*                from a smaller set
\*       "login" = one call, and the clock runs through the back-off sleeps;
\*       "load" = the processes that write the token file, and the construction
\*                of MyQAPI that reads it
\* capture: the dict MyQTokenCapture keeps (self.tokens of the mitmproxy addon)
VARIABLES now, tokens, file, lock, task, hasCreds, issued, hist, mode, capture,
          client, rate_limit_store, served

vars == <<now, tokens, file, lock, task, hasCreds, issued, hist, mode, capture,
          client, rate_limit_store, served>>

OneAtATime == mode = "seq"
FullProvider == mode \in {"seq", "lock", "login", "live"}

\* ------------------------------------------ what the provider may answer
AuthorizeOutcomes ==
    IF FullProvider THEN {"429", "error", "302"} \cup HtmlKinds
    ELSE IF mode = "pkce" THEN {"429", "form"} ELSE {"error", "form"}
PageOutcomes == {"error"} \cup HtmlKinds
PostOutcomes ==
    IF FullProvider
    THEN {"not_redirect", "not_redirect_invalid", "few_cookies", "redirect"}
    ELSE {"redirect"}
FollowCodes == IF FullProvider THEN {"no_location", "no_code", "abc"} ELSE {"abc"}
FollowScopes == IF FullProvider THEN Scopes \cup {EmptyStr} ELSE {EmptyStr}
TokenBodies ==
    IF FullProvider THEN AllTokenBodies
    ELSE {TokenBody(TRUE, TRUE, Secs(30), EmptyStr),
          TokenBody(TRUE, TRUE, Absent, EmptyStr)}
AccountsOutcomes == IF FullProvider THEN {"error", "empty", "acc1"} ELSE {"acc1"}
DevicesOutcomes == IF FullProvider THEN {"error", "GD1", EmptyStr} ELSE {"GD1"}
Statuses ==
    IF mode = "login" THEN {200, 202, 401, 404, 500}
    ELSE IF mode = "device" THEN {200, 202, 401, 404}
    ELSE IF mode = "decode" THEN {200, 202, 404}
    ELSE IF FullProvider THEN {200, 202, 401, 500} ELSE {200, 401}
SetCookies ==
    IF FullProvider THEN {EmptyStr, "session=s1"} \cup Cookies ELSE {EmptyStr, "__cf_bm=c2"}
GdoChoices == IF OneAtATime THEN BOOLEAN ELSE {TRUE}
DeviceLists == {"none", "door", "door_noserial"}
\* the cookies one response of the login chain sets (followed in "login" mode
\* only); `some`: the code goes on only when the response has cookies
ResponseCookies(from, some) ==
    IF mode # "login" THEN {{}}
    ELSE (IF some THEN {} ELSE {{}}) \cup
         {{[from |-> from, scope |-> sc]} : sc \in {"site", "path"}}
DoorSerial == "GD1"

\* (variant: the file is written without the key 'token_scope')
Dump_NoTokenScope(tok) ==
    [access_token |-> tok.access_token, refresh_token |-> tok.refresh_token,
     expires_at |-> tok.expires_at, account_id |-> tok.account_id,
     device_serial |-> tok.device_serial, expires_in |-> DefaultExpiresIn,
     token_type |-> "Bearer", scope |-> DefaultScope,
     cf_cookie |-> tok.cf_cookie]

\* ------------------------------------------------------------ token file
\* json.dumps(data) of _save_tokens
Dump(tok) ==
    [access_token |-> tok.access_token, refresh_token |-> tok.refresh_token,
     expires_at |-> tok.expires_at, account_id |-> tok.account_id,
     device_serial |-> tok.device_serial, expires_in |-> DefaultExpiresIn,
     token_type |-> "Bearer", scope |-> DefaultScope,
     cf_cookie |-> tok.cf_cookie, token_scope |-> tok.token_scope]

\* the file's content is not JSON
NotJson == [garbage |-> TRUE]

\* data.get(k, default) on the parsed file
Get(d, k, default) == IF k \in DOMAIN d THEN d[k] ELSE default

\* (variant: the scope is read from the key 'scope')
Load_ScopeKey(f, t) ==
    IF f = NoFile \/ f = NotJson THEN None
    ELSE IF ~({"access_token", "refresh_token"} \subseteq DOMAIN f) THEN None
    ELSE TokenInfo(f.access_token, f.refresh_token,
                   Get(f, "expires_at", t + DefaultExpiresIn),
                   Get(f, "account_id", EmptyStr),
                   Get(f, "device_serial", EmptyStr),
                   Get(f, "cf_cookie", EmptyStr),
                   Get(f, "scope", DefaultScope))

\* (variant: a missing refresh_token is read as '')
Load_Lenient(f, t) ==
    IF f = NoFile \/ f = NotJson THEN None
    ELSE IF "access_token" \notin DOMAIN f THEN None
    ELSE TokenInfo(f.access_token, Get(f, "refresh_token", NoToken),
                   Get(f, "expires_at", t + DefaultExpiresIn),
                   Get(f, "account_id", EmptyStr),
                   Get(f, "device_serial", EmptyStr),
                   Get(f, "cf_cookie", EmptyStr),
                   Get(f, "token_scope", DefaultScope))

\* _load_tokens at time t: no file leaves tokens None; a file that is not JSON
\* or lacks access_token or refresh_token raises inside the try block
Load(f, t) ==
    IF f = NoFile THEN None
    ELSE IF f = NotJson THEN None
    ELSE IF ~({"access_token", "refresh_token"} \subseteq DOMAIN f) THEN None
    ELSE TokenInfo(f.access_token, f.refresh_token,
                   Get(f, "expires_at", t + DefaultExpiresIn),
                   Get(f, "account_id", EmptyStr),
                   Get(f, "device_serial", EmptyStr),
                   Get(f, "cf_cookie", EmptyStr),
                   Get(f, "token_scope", DefaultScope))

\* '__cf_bm=' in set_cookie
HasCfBm(h) == h \in Cookies

\* ------------------------------------------------- response body decoding
\* bytes on the wire: JSON text, JSON text packed by a codec, or bytes that are
\* neither
Codecs == {"gzip", "br", "deflate"}
Plain == [codec |-> "none", of |-> "json"]
Junk == [codec |-> "none", of |-> "junk"]
Packed(c) == [codec |-> c, of |-> "json"]
WireBodies == {Plain, Junk} \cup {Packed(c) : c \in Codecs}

\* the Content-Encoding header: absent, a known codec, an unknown one
Encodings == {EmptyStr, "zstd"} \cup Codecs

\* a response body, its declared encoding, and whether `import brotli` works
\* (followed in "decode" mode only)
WireInputs ==
    IF mode = "decode"
    THEN [wire : WireBodies, enc : Encodings, brotli : BOOLEAN]
    ELSE {[wire |-> Plain, enc |-> EmptyStr, brotli |-> TRUE]}

\* gzip.decompress / brotli.decompress / zlib.decompress: the unpacked bytes,
\* or an exception (also the ImportError of a missing brotli module)
Decompress(c, b, brotli) ==
    IF b.codec = c /\ (c = "br" => brotli)
    THEN [raised |-> FALSE, v |-> [codec |-> "none", of |-> b.of]]
    ELSE [raised |-> TRUE, v |-> b]

\* (variant: no try block around the decompression)
decompress_body_NoTry(body, encoding, brotli) ==
    IF encoding \in Codecs THEN Decompress(encoding, body, brotli)
    ELSE [raised |-> FALSE, v |-> body]

\* decompress_body(body, encoding) of the capture proxy
decompress_body(body, encoding, brotli) ==
    IF encoding \in Codecs /\ ~Decompress(encoding, body, brotli).raised
    THEN Decompress(encoding, body, brotli)
    ELSE [raised |-> FALSE, v |-> body]

\* the try block of _request: gzip and br only
RequestDecode(data, encoding, brotli) ==
    IF encoding \in {"gzip", "br"} /\ ~Decompress(encoding, data, brotli).raised
    THEN Decompress(encoding, data, brotli)
    ELSE [raised |-> FALSE, v |-> data]

\* ghost: the last decoding step, its input and what it gave
DecNote(by, inp, out) ==
    IF mode = "decode"
    THEN [by |-> by, wire |-> inp.wire, enc |-> inp.enc, brotli |-> inp.brotli,
          out |-> out.v, raised |-> out.raised]
    ELSE None

\* ------------------------------ the other processes that write the file
\* {} of Python
EmptyDict == [k \in {} |-> EmptyStr]

\* d[k] = v
Put(d, k, v) == [x \in DOMAIN d \cup {k} |-> IF x = k THEN v ELSE d[x]]

\* _load_existing_tokens / load_existing_tokens / `existing` of update_tokens
ProxyLoad(f) == IF f = NoFile \/ f = NotJson THEN EmptyDict ELSE f

\* expiry of a captured access token: its JWT exp claim, or the fall-back
JwtExpiries(t) == {GraceWindow + TickLen, t + DefaultExpiresIn}

\* cookies and token responses seen in captured traffic
CapturedCookies == {EmptyStr, "__cf_bm=c2"}
CapturedBodies ==
    IF mode = "decode" THEN {TokenBody(TRUE, TRUE, Absent, EmptyStr)}
    ELSE {b \in AllTokenBodies : b.ei.kind # "int" \/ ~b.rt}
\* the responses the proxy tells apart by host and path
CapturedKinds ==
    IF mode = "decode" THEN {"token", "other"}
    ELSE {"token", "accounts", "devices", "other"}

\* the tools that write the file run before the server constructs MyQAPI
ServerDown == mode = "load" /\ [e |-> "constructed", t |-> 0] \notin hist.evs

\* "shared" mode: the proxy and update_tokens also run beside a live MyQAPI
WriterMayRun == ServerDown \/ mode \in {"shared", "decode", "proxy"}

\* the needles of the proxy's host tests that a request host contains
PartnerHost == "partner-identity.myq-cloud.com"
Markers(host) ==
    CASE host = "partner-identity.myq-cloud.com" -> {"myq-cloud.com", PartnerHost}
      [] host = "api.myq-cloud.com" -> {"myq-cloud.com"}
      [] host = "www.myq.com" -> {"myq.com"}
      [] host = "myq.com.example.net" -> {"myq.com"}
      [] OTHER -> {}

\* flow.request.host of the flows that pass through the proxy (hosts other
\* than the identity provider are followed in "proxy" mode only)
FlowHosts ==
    IF mode = "proxy"
    THEN {PartnerHost, "api.myq-cloud.com", "www.myq.com", "myq.com.example.net",
          "example.com", "api.myqdevice.com"}
    ELSE {PartnerHost}

\* (variant: no host test at the head of the handlers)
MyQTraffic_Any(host) == TRUE

\* not ("myq-cloud.com" not in host and "myq.com" not in host)
MyQTraffic(host) ==
    ~("myq-cloud.com" \notin Markers(host) /\ "myq.com" \notin Markers(host))

\* _save_tokens calls of one handler run: the dicts in `steps` that differ from
\* the one before
SaveCount(d0, steps) ==
    Cardinality({i \in DOMAIN steps :
                   steps[i] # (IF i = 1 THEN d0 ELSE steps[i - 1])})

\* ghost of "proxy" mode: what kind of host the last flow had; and
\* self.capture_count after n more saves
Logged(h, host, n) ==
    IF mode # "proxy" THEN h
    ELSE [h EXCEPT !.capture_count = @ + n,
                   !.evs = @ \cup {[e |-> IF Markers(host) \cap {"myq-cloud.com",
                                                                "myq.com"} = {}
                                          THEN "flow_other" ELSE "flow_myq",
                                    t |-> 0]}]

\* "Bearer <tok>" seen in a request: tok is NoToken when there is no such header
CaptureBearer(d, tok, exp) ==
    IF tok # NoToken /\ tok # Get(d, "access_token", NoToken)
    THEN Put(Put(Put(Put(Put(d, "access_token", tok), "expires_at", exp),
                     "expires_in", DefaultExpiresIn), "token_type", "Bearer"),
             "scope", DefaultScope)
    ELSE d

\* a __cf_bm cookie seen in a Cookie or Set-Cookie header
CaptureCookie(d, h) ==
    IF HasCfBm(h) /\ h # Get(d, "cf_cookie", EmptyStr) THEN Put(d, "cf_cookie", h)
    ELSE d

\* the last dict a handler saved, or the file as it was
Saved(f, d0, steps) ==
    LET changed == {i \in DOMAIN steps :
                      steps[i] # (IF i = 1 THEN d0 ELSE steps[i - 1])}
    IN IF changed = {} THEN f
       ELSE steps[CHOOSE i \in changed : \A j \in changed : j <= i]

ExternalWrite(h) == [h EXCEPT !.evs = {[e |-> "file_written", t |-> 0]},
                              !.rfBody = None, !.dec = None]
NoExternalWrite(h) == [h EXCEPT !.evs = {}, !.rfBody = None, !.dec = None]

\* MyQTokenCapture.request
ProxyRequest ==
    /\ ServerDown \/ mode = "proxy"
    /\ \E new \in BOOLEAN, exp \in JwtExpiries(now), h \in CapturedCookies,
          host \in FlowHosts :
         LET tok == IF new THEN issued + 1 ELSE Get(capture, "access_token", NoToken)
             live == MyQTraffic(host)
             d1 == IF live THEN CaptureBearer(capture, tok, exp) ELSE capture
             d2 == IF live THEN CaptureCookie(d1, h) ELSE capture
             n == SaveCount(capture, <<d1, d2>>)
         IN /\ new => issued < MaxIssued
            /\ mode = "proxy" => hist.capture_count + n <= MaxCaptures
            /\ issued' = IF new THEN tok ELSE issued
            /\ capture' = d2
            /\ file' = Saved(file, capture, <<d1, d2>>)
            /\ hist' = Logged(IF d2 # capture THEN ExternalWrite(hist)
                              ELSE NoExternalWrite(hist), host, n)
    /\ UNCHANGED <<now, tokens, lock, task, hasCreds, mode, client,
                   rate_limit_store, served>>

\* the OAuth token response seen by the proxy; a TypeError on expires_in is
\* caught after the first two assignments
CaptureOAuth(d, body, tok, t) ==
    IF ~body.at THEN d
    ELSE LET d1 == Put(Put(d, "access_token", tok), "refresh_token",
                       IF body.rt THEN tok ELSE Get(d, "refresh_token", NoToken))
             sc == IF body.scope = EmptyStr THEN DefaultScope ELSE body.scope
         IN IF body.ei = Malformed THEN d1
            ELSE Put(Put(Put(Put(Put(d1, "expires_at", t + GetExpiresIn(body.ei).v),
                                 "expires_in", GetExpiresIn(body.ei).v),
                             "token_type", "Bearer"), "scope", sc),
                     "token_scope", sc)

CaptureItem(d, k, v) ==
    IF v # EmptyStr /\ v # Get(d, k, EmptyStr) THEN Put(d, k, v) ELSE d

\* MyQTokenCapture.response
ProxyResponse ==
    /\ WriterMayRun
    /\ \E kind \in CapturedKinds,
          body \in CapturedBodies, item \in {EmptyStr, "acc1", "GD1"},
          h \in CapturedCookies, inp \in WireInputs, host \in FlowHosts :
         LET tok == issued + 1
             live == MyQTraffic(host)
             dec == decompress_body(inp.wire, inp.enc, inp.brotli)
             \* json.loads of anything but JSON text raises inside the try blocks;
             \* a token response is one of the identity provider's host
             d1 == CASE ~live \/ dec.v # Plain -> capture
                     [] kind = "token" /\ PartnerHost \notin Markers(host) -> capture
                     [] kind = "token" -> CaptureOAuth(capture, body, tok, now)
                     [] kind = "accounts" -> CaptureItem(capture, "account_id", item)
                     [] kind = "devices" -> CaptureItem(capture, "device_serial", item)
                     [] OTHER -> capture
             \* the dict is saved only where the handler calls _save_tokens
             s1 == IF kind = "token" /\ body.at /\ body.ei = Malformed
                   THEN capture ELSE d1
             \* an exception of the decompression ends the handler
             d2 == IF dec.raised \/ ~live THEN capture ELSE CaptureCookie(d1, h)
             steps == <<s1, IF d2 # d1 THEN d2 ELSE s1>>
         IN /\ kind = "token" => (issued < MaxIssued /\ item = EmptyStr)
            /\ mode = "proxy"
                  => hist.capture_count + SaveCount(capture, steps) <= MaxCaptures
            /\ kind # "token" => body = TokenBody(TRUE, TRUE, Absent, EmptyStr)
            /\ kind = "other" => item = EmptyStr
            /\ issued' = IF kind = "token" /\ body.at /\ dec.v = Plain
                         THEN tok ELSE issued
            /\ capture' = d2
            /\ file' = Saved(file, capture, steps)
            /\ hist' = Logged([(IF file' # file THEN ExternalWrite(hist)
                                ELSE NoExternalWrite(hist))
                               EXCEPT !.dec = DecNote("proxy", inp, dec)],
                              host, SaveCount(capture, steps))
    /\ UNCHANGED <<now, tokens, lock, task, hasCreds, mode, client,
                   rate_limit_store, served>>

\* update_tokens(access_token, refresh_token, cf_cookie): main() asks for a
\* non-empty access token and refresh token
UpdateTokensData(existing, at, rt, exp, cf) ==
    [access_token |-> at, refresh_token |-> rt, expires_at |-> exp,
     account_id |-> Get(existing, "account_id", EmptyStr),
     device_serial |-> Get(existing, "device_serial", EmptyStr),
     expires_in |-> DefaultExpiresIn, token_type |-> "Bearer",
     scope |-> DefaultScope,
     cf_cookie |-> IF cf # EmptyStr THEN cf
                   ELSE Get(existing, "cf_cookie", EmptyStr)]

UpdateTokens ==
    /\ WriterMayRun
    /\ issued < MaxIssued
    /\ issued' = issued + 1
    /\ \E exp \in JwtExpiries(now), cf \in CapturedCookies :
         file' = UpdateTokensData(ProxyLoad(file), issued + 1, issued + 1, exp, cf)
    /\ hist' = ExternalWrite(hist)
    /\ UNCHANGED <<now, tokens, lock, task, hasCreds, mode, capture, client,
                 rate_limit_store, served>>

\* browser_login: the tokens dict saved after the token exchange
BrowserLogin ==
    /\ ServerDown
    /\ issued < MaxIssued
    /\ issued' = issued + 1
    /\ \E body \in {b \in CapturedBodies : b.at /\ b.ei # Malformed},
          acct \in {EmptyStr, "acc1"}, serial \in {EmptyStr, "GD1"} :
         LET existing == ProxyLoad(file)
             tok == issued + 1
         IN file' = [access_token |-> tok,
                     refresh_token |-> IF body.rt THEN tok
                                       ELSE Get(existing, "refresh_token", NoToken),
                     expires_at |-> now + GetExpiresIn(body.ei).v,
                     account_id |-> IF acct # EmptyStr THEN acct
                                    ELSE Get(existing, "account_id", EmptyStr),
                     device_serial |-> IF serial # EmptyStr /\ acct # EmptyStr
                                       THEN serial
                                       ELSE Get(existing, "device_serial", EmptyStr),
                     expires_in |-> GetExpiresIn(body.ei).v, token_type |-> "Bearer",
                     scope |-> DefaultScope,
                     cf_cookie |-> Get(existing, "cf_cookie", EmptyStr),
                     token_scope |-> IF body.scope = EmptyStr THEN DefaultScope
                                     ELSE body.scope]
    /\ hist' = ExternalWrite(hist)
    /\ UNCHANGED <<now, tokens, lock, task, hasCreds, mode, capture, client,
                 rate_limit_store, served>>

\* ------------------------------------------- the state one coroutine sees
\* s.tk is the running task's own frame; the rest is the shared instance
\* (hist.evs, the login/refresh events of one step, starts empty in each step)
State(t) == [tokens |-> tokens, file |-> file, lock |-> lock, tk |-> task[t],
             issued |-> issued,
             hist |-> [hist EXCEPT !.evs = {}, !.rfBody = None, !.dec = None],
             me |-> t]

\* ghost: the login or refresh of task t has just returned or raised
\* (hist.loginTok: the token of the latest successful login; hist.loginEi: the
\* smallest expires_in of a successful login so far)
Event(h, e, t) == [h EXCEPT !.evs = @ \cup {[e |-> e, t |-> t]}]

\* ghost, kept in "login" mode only: what a response of the login chain was and
\* which exception it led to
Note(h, e, t) == IF mode = "login" THEN Event(h, e, t) ELSE h

\* requests of the login chain sent by the running login() call
Reqs0 == [auth |-> 0, page |-> 0, post |-> 0, follow |-> 0, exch |-> 0]

Frame0 ==
    [pc |-> "idle", op |-> "none", gdo |-> FALSE, caller |-> "none",
     attempt |-> 0, wake |-> 0, scope |-> EmptyStr, exScope |-> EmptyStr,
     tr |-> None, acct |-> EmptyStr, rfTok |-> NoToken, rfScope |-> EmptyStr,
     req |-> None, sent |-> None, nLogin |-> 0, nRelogin |-> 0, nRefresh |-> 0,
     nSend |-> 0, nResp |-> 0, st1 |-> 0, st2 |-> 0, seen |-> EmptyStr,
     ret |-> "none", val |-> 0, sawNone |-> FALSE, loginTok |-> NoToken,
     rf |-> "none", retTok |-> NoToken, retFileTok |-> NoToken,
     reqs |-> Reqs0,
     dev |-> "none", stage |-> 0, path |-> <<>>, items |-> "none",
     ep |-> "none", http |-> 0,
     got |-> {}, cookies |-> {}, login_cookies |-> {}, wire |-> {},
     code_verifier |-> 0, challenges |-> {}, sentVerifier |-> 0, loginNo |-> 0,
     cfAtStart |-> EmptyStr, door |-> "none", cmd |-> "none", puts |-> 0,
     keyBad |-> FALSE]

\* locals of a finished call are dropped; what the caller saw is kept
Finish(s, ret, val) ==
    [s EXCEPT !.tk = [@ EXCEPT !.pc = "done", !.ret = ret, !.val = val,
                              !.caller = "none", !.attempt = 0, !.wake = 0,
                              !.scope = EmptyStr, !.exScope = EmptyStr,
                              !.tr = None, !.acct = EmptyStr,
                              !.rfTok = NoToken, !.rfScope = EmptyStr,
                              !.reqs = Reqs0, !.got = {}, !.cookies = {},
                              !.login_cookies = {}, !.wire = {},
                              !.code_verifier = 0, !.challenges = {},
                              !.sentVerifier = 0, !.loginNo = 0,
                              !.cfAtStart = EmptyStr]]

SaveTokens(s) ==
    IF s.tokens # None THEN [s EXCEPT !.file = Dump(s.tokens)] ELSE s

\* ------------------------------------------------------------- _request
\* headers of the first downstream request, then session.request(...)
RequestSend(s) ==
    LET cookie == IF s.tk.gdo /\ s.tokens.cf_cookie # EmptyStr
                  THEN s.tokens.cf_cookie ELSE EmptyStr
        hdr == [auth |-> s.tokens.access_token, cookie |-> cookie]
    IN [s EXCEPT !.tk = [@ EXCEPT !.pc = "rq_wait", !.req = hdr,
                                 !.sent = [auth |-> s.tokens.access_token,
                                           cookie |-> s.tokens.cf_cookie],
                                 !.nSend = @ + 1,
                                 !.puts = IF s.tk.stage = 2 THEN @ + 1 ELSE @]]

\* (variant: the retry is sent with the headers of the first request)
RetrySend_Stale(s) ==
    [s EXCEPT !.tk = [@ EXCEPT !.pc = "rq_retry",
                              !.sent = [auth |-> s.tokens.access_token,
                                        cookie |-> s.tokens.cf_cookie],
                              !.nSend = @ + 1,
                              !.puts = IF s.tk.stage = 2 THEN @ + 1 ELSE @]]

\* headers['Authorization'] = new token, then the retry
RetrySend(s) ==
    LET hdr == [s.tk.req EXCEPT !.auth = s.tokens.access_token]
    IN [s EXCEPT !.tk = [@ EXCEPT !.pc = "rq_retry", !.req = hdr,
                                 !.sent = [auth |-> s.tokens.access_token,
                                           cookie |-> s.tokens.cf_cookie],
                                 !.nSend = @ + 1,
                                 !.puts = IF s.tk.stage = 2 THEN @ + 1 ELSE @]]

\* ---------------------------------------------------- _ensure_valid_token
\* (variant: the lock stays held after a normal return)
EnsureReturn_KeepLock(s) ==
    LET r == [s EXCEPT !.tk.retTok = s.tokens.access_token,
                       !.tk.retFileTok = IF s.file = NoFile THEN NoToken
                                         ELSE s.file.access_token]
    IN IF s.tk.op = "request" THEN RequestSend(r) ELSE Finish(r, "ok", 0)

\* leaving the `async with self._lock` block normally
EnsureReturn(s) ==
    LET r == [s EXCEPT !.lock = {},
                       !.tk.retTok = s.tokens.access_token,
                       !.tk.retFileTok = IF s.file = NoFile THEN NoToken
                                         ELSE s.file.access_token]
    IN IF s.tk.op = "request" THEN RequestSend(r) ELSE Finish(r, "ok", 0)

\* (variant: the exception leaves without releasing the lock)
EnsureRaise_KeepLock(s) == Finish(s, "auth_error", 0)

\* the exception raised inside the lock block propagates to the caller
EnsureRaise(s) == Finish([s EXCEPT !.lock = {}], "auth_error", 0)

\* ----------------------------------------------------------------- login
\* generate_pkce_pair(): the verifier is 32 random bytes, modelled as a value
\* no earlier call has returned (the number of the login on this instance;
\* followed in "pkce" mode only); the challenge is its SHA-256 digest
NewVerifier(h) == IF mode = "pkce" THEN h.logins + 1 ELSE 0
Challenge(v) == [method |-> "S256", of |-> v]

\* (variant: the verifier is kept on the instance, where the latest login's
\* pair replaces it)
Verifier_OnInstance(s) == s.hist.logins

\* code_verifier, a local variable of the running login() call
Verifier(s) == s.tk.code_verifier

\* session.get / session.post of the login chain: the request goes out and the
\* coroutine waits for the response at pc
\* (challenges: the code_challenge values this call has sent in authorize GETs;
\* sentVerifier: the code_verifier sent in its token exchange)
Send(s, kind, pc) ==
    [s EXCEPT !.tk.pc = pc, !.tk.reqs = [@ EXCEPT ![kind] = @ + 1],
              !.tk.challenges = IF kind = "auth"
                                THEN @ \cup {Challenge(Verifier(s))} ELSE @,
              !.tk.sentVerifier = IF kind = "exch" THEN Verifier(s) ELSE @,
              !.hist.pairs = IF kind = "auth" /\ mode = "pkce"
                             THEN @ \cup {[login |-> s.tk.loginNo,
                                           pair |-> Verifier(s)]}
                             ELSE @]

\* cookies of the login chain: a cookie is named after the response that set
\* it; scope "site" is one the session's cookie jar sends again with every
\* later request of the chain, scope "path" one it sends only to the
\* directory that set it
\* _extract_cookies(response): "k=v; ..." of response.cookies, attributes dropped
ExtractCookies(cs) == {c.from : c \in cs}

\* what the cookie jar of the aiohttp session adds to a request by itself
JarCookies(got) == {c.from : c \in {g \in got : g.scope = "site"}}

\* a request of the chain sent with the header "Cookie": hdr
\* (got: the cookies set by the responses of this login so far; wire: the
\* cookies the request carries)
SendCk(s, kind, pc, hdr) ==
    Send([s EXCEPT !.tk.wire = hdr \cup JarCookies(s.tk.got)], kind, pc)

\* the response's cookies are received
Receive(s, cs) == [s EXCEPT !.tk.got = @ \cup cs]

\* the cookie locals are not used after the final redirect
DropCookies(s) ==
    [s EXCEPT !.tk.got = {}, !.tk.cookies = {}, !.tk.login_cookies = {},
              !.tk.wire = {}]

LoginRaise(s) ==
    LET r == [s EXCEPT !.hist = Event([@ EXCEPT !.loginFailed = TRUE],
                                      "login_failed", s.me)]
    IN IF s.tk.caller = "relogin" THEN Finish(r, "login_error", 0)
       ELSE EnsureRaise(r)

\* raise Exception(why) inside login's try block
Fail(s, why) == LoginRaise([s EXCEPT !.hist = Note(@, why, s.me)])

LoginReturn(s) ==
    LET r == [s EXCEPT !.hist = Event([@ EXCEPT
                                   !.scope = s.tk.scope,
                                   !.loginTok = s.tokens.access_token,
                                   !.loginEi =
                                      IF s.hist.loginTok # NoToken
                                         /\ @ < GetExpiresIn(s.tk.tr.ei).v
                                      THEN @ ELSE GetExpiresIn(s.tk.tr.ei).v],
                                   "login_ok", s.me),
                       !.tk.loginTok = s.tk.tr.at]
    IN IF s.tk.caller = "relogin" THEN RetrySend(r) ELSE EnsureReturn(r)

\* the stored cookie when login() is entered (followed for overlapping calls)
CookieNow(s) ==
    IF mode = "conc" /\ s.tokens # None THEN s.tokens.cf_cookie ELSE EmptyStr

\* login() up to the first authorize GET
LoginStart(s, caller) ==
    LET r == [s EXCEPT !.hist.logins = @ + 1,
                       !.tk = [@ EXCEPT !.caller = caller, !.nLogin = @ + 1,
                                        !.cfAtStart = CookieNow(s),
                                        !.code_verifier = NewVerifier(s.hist),
                                        !.loginNo = s.hist.logins + 1,
                                        !.challenges = {}, !.sentVerifier = 0,
                                        !.nRelogin = IF caller = "relogin"
                                                     THEN @ + 1 ELSE @,
                                        !.attempt = 0, !.reqs = Reqs0]]
    IN IF ~hasCreds THEN Fail(r, "no_credentials")
       ELSE Send(r, "auth", "lg_authorize")

\* ------------------------------------------------------- _refresh_token
\* (variant: a failed refresh is not followed by a login)
RefreshReturn_NoFallback(s, ok) ==
    LET r == [s EXCEPT !.tk.rfTok = NoToken, !.tk.rfScope = EmptyStr,
                       !.tk.rf = IF ok THEN "ok" ELSE "failed",
                       !.hist = Event(@, IF ok THEN "refresh_ok"
                                         ELSE "refresh_failed", s.me)]
    IN IF s.tk.op = "refresh_ep"
       THEN Finish(r, IF ok THEN "ok" ELSE "http_500", 0)
       ELSE EnsureReturn(r)

RefreshReturn(s, ok) ==
    LET r == [s EXCEPT !.tk.rfTok = NoToken, !.tk.rfScope = EmptyStr,
                       !.tk.rf = IF ok THEN "ok" ELSE "failed",
                       !.hist = Event(@, IF ok THEN "refresh_ok"
                                         ELSE "refresh_failed", s.me)]
    IN IF s.tk.op = "refresh_ep"
       THEN Finish(r, IF ok THEN "ok" ELSE "http_500", 0)
       ELSE IF ok THEN EnsureReturn(r) ELSE LoginStart(r, "fallback")

RefreshStart(s) ==
    IF s.tokens = None \/ s.tokens.refresh_token = NoToken
    THEN RefreshReturn(s, FALSE)
    ELSE [s EXCEPT !.tk = [@ EXCEPT !.pc = "rf_post", !.nRefresh = @ + 1,
                                    !.rfTok = s.tokens.refresh_token,
                                    !.rfScope = s.tokens.token_scope]]

\* (variant: the token's lifetime is taken for the grace window)
NeedsRefresh_Wide(t, exp) == t > exp - DefaultExpiresIn

\* time.time() > self.tokens.expires_at - 300
NeedsRefresh(t, exp) == t > exp - GraceWindow

\* (variant: the body runs without holding the lock)
EnsureBody_NoLock(s) ==
    IF s.tokens = None THEN LoginStart(s, "absent")
    ELSE IF NeedsRefresh(now, s.tokens.expires_at) THEN RefreshStart(s)
    ELSE EnsureReturn(s)

\* body of `async with self._lock:` up to its first suspension
EnsureBody(s) ==
    LET r == [s EXCEPT !.lock = {s.me}]
    IN IF r.tokens = None THEN LoginStart(r, "absent")
       ELSE IF NeedsRefresh(now, r.tokens.expires_at) THEN RefreshStart(r)
       ELSE EnsureReturn(r)

\* ------------------------------------------------- the device operations
\* `async with self._lock` entered by running code: taken at once when free
EnterBody(s) ==
    IF s.lock = {} THEN EnsureBody(s) ELSE [s EXCEPT !.tk.pc = "ev_wait"]

\* _request(method, path, use_gdo_host=gdo) called by a device operation
RequestStart(s, gdo) ==
    EnterBody([s EXCEPT !.tk.op = "request", !.tk.gdo = gdo,
                        !.tk.sawNone = (s.tokens = None)])

\* the device operation returns or raises (stage 3: nothing left to run)
Returned(s) == [s EXCEPT !.tk.stage = 3]

\* get_devices: the path is formatted with self.tokens.account_id, then
\* _request is called; with tokens None the attribute access raises
GetDevices(s) ==
    IF s.tokens = None THEN Returned(Finish(s, "attribute_error", 0))
    ELSE RequestStart([s EXCEPT !.tk.stage = 1,
                                !.tk.path = Append(@, s.tokens.account_id)],
                      FALSE)

\* set_door_state after get_garage_door: door['serial_number'], then the PUT
\* to the GDO host with the account id read now
SetDoorState(s) ==
    IF s.tk.items = "door_noserial" THEN Returned(Finish(s, "key_error", 0))
    ELSE RequestStart([s EXCEPT !.tk.stage = 2,
                                !.tk.path = Append(@, s.tokens.account_id)],
                      TRUE)

\* get_garage_door after get_devices returned the items
GetGarageDoor(s) ==
    IF s.tk.items = "none" THEN Returned(Finish(s, "no_garage_door", 0))
    ELSE LET r == IF s.tokens # None /\ s.tk.items = "door"
                  THEN SaveTokens([s EXCEPT !.tokens.device_serial = DoorSerial])
                  ELSE s
         IN IF s.tk.dev \in {"open_door", "close_door"} THEN SetDoorState(r)
            ELSE Returned(r)

\* what the device operation does when its _request has returned or raised
Resume(s) ==
    IF s.tk.pc # "done" \/ s.tk.stage \notin {1, 2} THEN s
    ELSE IF s.tk.stage = 2 \/ s.tk.ret \notin {"ok", "accepted"} THEN Returned(s)
    ELSE IF s.tk.dev = "get_devices" THEN Returned(s)
    ELSE GetGarageDoor(s)

\* server.py POST /open, /close, /toggle: the handler reads the door state
\* with get_door_state(), then calls open_door() or close_door(), or neither
DoorEndpoints == {"open", "close", "toggle"}
DoorStates == {"open", "opening", "closed", "closing", "unknown"}

\* (variant: /open and /close send their command whatever the state is)
Command_NoGuard(ep, door) ==
    CASE ep = "open" -> "open"
      [] ep = "close" -> "close"
      [] OTHER -> IF door \in {"open", "opening"} THEN "close" ELSE "open"

\* (variant: /toggle opens unless the door is closed)
Command_ToggleByClosed(ep, door) ==
    CASE ep = "open" -> IF door \in {"open", "opening"} THEN "none" ELSE "open"
      [] ep = "close" -> IF door \in {"closed", "closing"} THEN "none" ELSE "close"
      [] OTHER -> IF door = "closed" THEN "close" ELSE "open"

\* the command a handler sends after it has read `door` ("none": no command);
\* /toggle tests state.is_open, which is true for 'open' and 'opening'
Command(ep, door) ==
    CASE ep = "open" -> IF door \in {"open", "opening"} THEN "none" ELSE "open"
      [] ep = "close" -> IF door \in {"closed", "closing"} THEN "none" ELSE "close"
      [] OTHER -> IF door \in {"open", "opening"} THEN "close" ELSE "open"

\* the handler after get_door_state() has returned: api.open_door() or
\* api.close_door(), each of which lists the devices again before its PUT
Handler(s) ==
    IF /\ s.tk.pc = "done" /\ s.tk.stage = 3 /\ s.tk.http = 0
       /\ s.tk.ep \in DoorEndpoints /\ s.tk.dev = "get_door_state"
       /\ s.tk.ret = "ok" /\ Command(s.tk.ep, s.tk.door) # "none"
    THEN GetDevices([s EXCEPT !.tk.cmd = Command(s.tk.ep, s.tk.door),
                              !.tk.dev = IF Command(s.tk.ep, s.tk.door) = "open"
                                         THEN "open_door" ELSE "close_door"])
    ELSE s

\* server.py: every exception of a handler becomes HTTPException(500)
ServerStatus(ret) == IF ret \in {"ok", "accepted"} THEN 200 ELSE 500

\* the endpoint handler answers once the operation it awaited is over
Respond(s) ==
    IF s.tk.pc = "done" /\ s.tk.ep # "none" /\ s.tk.http = 0
    THEN [s EXCEPT !.tk.http = ServerStatus(s.tk.ret)] ELSE s

\* the running task goes on until its next suspension point
Apply(t, s) ==
    \E r1 \in {s} : \E r2 \in {Resume(r1)} :
    \E r3 \in {IF r2.tk.pc = "done" /\ r2.tk.stage = 2 THEN Returned(r2) ELSE r2} :
    \E r4 \in {Handler(r3)} :
    \E r \in {Respond(Resume(r4))} :
       /\ tokens' = r.tokens
       /\ file' = r.file
       /\ lock' = r.lock
       /\ task' = [task EXCEPT ![t] = r.tk]
       /\ issued' = r.issued
       /\ hist' = r.hist

\* ------------------------------------------------- login: the HTTP chain
\* Step 2: the login page HTML, then the credential POST
\* (variant: the challenge markers are not looked for)
ParseForm_NoChallengeCheck(s, html) ==
    LET r == [s EXCEPT !.hist = Note(@, html, s.me)]
    IN IF html = "notoken" THEN Fail(r, "form_not_found")
       ELSE SendCk(r, "post", "lg_post", r.tk.cookies)

\* html: "challenge" has one of the Cloudflare markers, "notoken" has no
\* __RequestVerificationToken input, "form" is the login form
ParseForm(s, html) ==
    LET r == [s EXCEPT !.hist = Note(@, html, s.me)]
    IN IF html = "challenge" THEN Fail(r, "challenge_required")
       ELSE IF html = "notoken" THEN Fail(r, "form_not_found")
       ELSE SendCk(r, "post", "lg_post", r.tk.cookies)

\* (variant: the same wait after every 429)
Backoff_Flat(attempt) == BackoffUnit

\* wait_time = 60 * (attempt + 1)
Backoff(attempt) == BackoffUnit * (attempt + 1)

\* Step 1: response of the authorize GET
AuthorizeResp(t) ==
    /\ task[t].pc = "lg_authorize"
    /\ \E r \in AuthorizeOutcomes :
       \E cs \in IF r \in {"429", "error"} THEN {{}}
                 ELSE ResponseCookies("auth", FALSE) :
         LET s == State(t)
             \* cookies = self._extract_cookies(resp)
             q == [Receive(s, cs) EXCEPT !.tk.cookies = ExtractCookies(cs)]
         IN
         Apply(t, CASE r = "429" ->
                         [s EXCEPT !.tk.pc = "lg_sleep",
                                   !.tk.wake = now + Backoff(s.tk.attempt)]
                    [] r = "error" -> Fail(s, "auth_page_failed")
                    [] r = "302" -> SendCk(q, "page", "lg_page", q.tk.cookies)
                    [] OTHER -> ParseForm(q, r))
    /\ UNCHANGED <<now, hasCreds, mode, capture, client,
                 rate_limit_store, served>>

\* asyncio.sleep(wait_time) is over: next round of `for attempt in range(max_retries)`
SleepDone(t) ==
    /\ task[t].pc = "lg_sleep"
    /\ now >= task[t].wake
    /\ LET s == State(t)
           r == [s EXCEPT !.tk.attempt = @ + 1, !.tk.wake = 0]
       IN Apply(t, IF r.tk.attempt < MaxRetries
                   THEN Send(r, "auth", "lg_authorize")
                   ELSE Fail(r, "rate_limited"))
    /\ UNCHANGED <<now, hasCreds, mode, capture, client,
                 rate_limit_store, served>>

\* response of the GET that follows the authorize redirect
PageResp(t) ==
    /\ task[t].pc = "lg_page"
    /\ \E r \in PageOutcomes :
       \E cs \in IF r = "error" THEN {{}} ELSE ResponseCookies("page", FALSE) :
         LET s == State(t)
             \* cookies = self._extract_cookies(redirect_resp) or cookies
             q == [Receive(s, cs) EXCEPT
                      !.tk.cookies = IF ExtractCookies(cs) # {}
                                     THEN ExtractCookies(cs) ELSE @]
         IN Apply(t, IF r = "error" THEN Fail(s, "page_failed") ELSE ParseForm(q, r))
    /\ UNCHANGED <<now, hasCreds, mode, capture, client,
                 rate_limit_store, served>>

\* Step 3: response of the credential POST
\* (variant: the cookies of the redirect are not counted)
PostResult_NoCookieCheck(s, r) ==
    LET q == [s EXCEPT !.hist = Note(@, r, s.me)]
    IN CASE r \in {"redirect", "few_cookies"} ->
                SendCk(q, "follow", "lg_follow", q.tk.login_cookies)
         [] r = "not_redirect_invalid" -> Fail(q, "invalid_credentials")
         [] OTHER -> Fail(q, "login_status")

\* r: "not_redirect" is a status other than 302/303, "not_redirect_invalid" one
\* whose body says 'invalid' or 'incorrect', "few_cookies" a redirect with
\* fewer than two cookies
PostResult(s, r) ==
    LET q == [s EXCEPT !.hist = Note(@, r, s.me)]
    IN CASE r = "redirect" ->
                SendCk(q, "follow", "lg_follow", q.tk.login_cookies)
         [] r = "few_cookies" -> Fail(q, "invalid_credentials")
         [] r = "not_redirect_invalid" -> Fail(q, "invalid_credentials")
         [] OTHER -> Fail(q, "login_status")

PostResp(t) ==
    /\ task[t].pc = "lg_post"
    /\ \E r \in PostOutcomes :
       \E cs \in IF r = "redirect" THEN ResponseCookies("post", TRUE) ELSE {{}} :
         \* login_cookies = self._extract_cookies(resp)
         Apply(t, PostResult([Receive(State(t), cs) EXCEPT
                                 !.tk.login_cookies = ExtractCookies(cs)], r))
    /\ UNCHANGED <<now, hasCreds, mode, capture, client,
                 rate_limit_store, served>>

\* the scope put into the token-exchange request
ExchangeScope(granted) == DefaultScope

\* (variant: the Location itself is taken for the code)
AuthCode_Raw(loc) == loc

\* parse_qs(urlsplit(final_redirect).query).get('code', [''])[0]
AuthCode(loc) == IF loc \in {"no_location", "no_code"} THEN EmptyStr ELSE loc

\* Step 4: the final redirect; Location carries code and scope (or not)
FollowResp(t) ==
    /\ task[t].pc = "lg_follow"
    /\ \E loc \in FollowCodes, sc \in FollowScopes :
         LET s == DropCookies([State(t) EXCEPT !.hist = Note(@, loc, t)])
             scope == IF sc = EmptyStr \/ loc = "no_location"
                      THEN DefaultScope ELSE sc
         IN Apply(t, IF AuthCode(loc) = EmptyStr THEN Fail(s, "missing_code")
                     ELSE Send([s EXCEPT !.tk.scope = scope,
                                         !.tk.exScope = ExchangeScope(scope)],
                               "exch", "lg_exchange"))
    /\ UNCHANGED <<now, hasCreds, mode, capture, client,
                 rate_limit_store, served>>

\* token_response.get('refresh_token', '')
LoginRefreshToken(body, fresh) == IF body.rt THEN fresh ELSE NoToken

\* Step 5: response of the token exchange
ExchangeResp(t) ==
    /\ task[t].pc = "lg_exchange"
    /\ \/ Apply(t, Fail(State(t), "exchange_failed"))
       \/ /\ issued < MaxIssued
          /\ \E body \in TokenBodies :
               LET s == State(t)
                   fresh == issued + 1
               IN Apply(t, IF ~body.at THEN Fail(s, "exchange_failed")
                           ELSE [s EXCEPT !.issued = fresh,
                                          !.tk.pc = "lg_accounts",
                                          !.tk.tr = [at |-> fresh,
                                                     rt |-> LoginRefreshToken(body, fresh),
                                                     ei |-> body.ei]])
    /\ UNCHANGED <<now, hasCreds, mode, capture, client,
                 rate_limit_store, served>>

\* Step 6: response of GET /Accounts
AccountsResp(t) ==
    /\ task[t].pc = "lg_accounts"
    /\ \E r \in AccountsOutcomes :
         LET s == State(t) IN
         Apply(t, CASE r = "error" -> Fail(s, "accounts_failed")
                    [] r = "empty" -> Fail(s, "no_accounts")
                    [] OTHER -> [s EXCEPT !.tk.pc = "lg_devices", !.tk.acct = r])
    /\ UNCHANGED <<now, hasCreds, mode, capture, client,
                 rate_limit_store, served>>

\* (variant: the cookie is the one that was stored when login() was entered)
LoginStore_CookieAtStart(s, serial) ==
    IF s.tk.tr.ei = Malformed THEN Fail(s, "bad_expires_in")
    ELSE LoginReturn(SaveTokens(
           [s EXCEPT !.tokens =
               TokenInfo(s.tk.tr.at, s.tk.tr.rt, ExpiresAt(now, s.tk.tr.ei),
                         s.tk.acct, serial, s.tk.cfAtStart, s.tk.scope)]))

\* self.tokens = TokenInfo(...); self._save_tokens(); return True
LoginStore(s, serial) ==
    IF s.tk.tr.ei = Malformed THEN Fail(s, "bad_expires_in")
    ELSE LoginReturn(SaveTokens(
           [s EXCEPT !.tokens =
               TokenInfo(s.tk.tr.at, s.tk.tr.rt, ExpiresAt(now, s.tk.tr.ei),
                         s.tk.acct, serial,
                         IF s.tokens # None THEN s.tokens.cf_cookie ELSE EmptyStr,
                         s.tk.scope)]))

\* Step 7: response of GET /Devices, then the tokens are stored
DevicesResp(t) ==
    /\ task[t].pc = "lg_devices"
    /\ \E r \in DevicesOutcomes :
         LET s == State(t) IN
         Apply(t, IF r = "error" THEN Fail(s, "devices_failed") ELSE LoginStore(s, r))
    /\ UNCHANGED <<now, hasCreds, mode, capture, client,
                 rate_limit_store, served>>

\* ------------------------------------------- _refresh_token: the response
\* (variant: the default is '' as in login)
RefreshedRefreshToken_Drop(body, fresh, old) == IF body.rt THEN fresh ELSE NoToken

\* result.get('refresh_token', self.tokens.refresh_token)
RefreshedRefreshToken(body, fresh, old) == IF body.rt THEN fresh ELSE old

\* (variant: the refreshed token is built anew, as login() builds it from the
\* token response alone)
RefreshStore_Rebuild(s, body, fresh) ==
    IF body.ei = Malformed
    THEN RefreshReturn([s EXCEPT !.issued = fresh], FALSE)
    ELSE RefreshReturn(SaveTokens(
           [s EXCEPT !.issued = fresh,
                     !.tokens =
                        TokenInfo(fresh,
                                  RefreshedRefreshToken(body, fresh,
                                                        s.tokens.refresh_token),
                                  ExpiresAt(now, body.ei), EmptyStr, EmptyStr,
                                  s.tokens.cf_cookie,
                                  IF body.scope = EmptyStr
                                  THEN s.tokens.token_scope ELSE body.scope)]),
           TRUE)

\* the assignments of the status-200 branch, in the order of the code
RefreshStore(s, body, fresh) ==
    LET t1 == [s.tokens EXCEPT !.access_token = fresh,
                               !.refresh_token =
                                   RefreshedRefreshToken(body, fresh, @)]
    IN IF body.ei = Malformed
       THEN RefreshReturn([s EXCEPT !.tokens = t1, !.issued = fresh], FALSE)
       ELSE RefreshReturn(SaveTokens(
              [s EXCEPT !.issued = fresh,
                        !.hist.scope = IF body.scope = EmptyStr THEN @
                                       ELSE body.scope,
                        !.tokens = [t1 EXCEPT
                            !.expires_at = ExpiresAt(now, body.ei),
                            !.token_scope = IF body.scope = EmptyStr THEN @
                                            ELSE body.scope]]), TRUE)

RefreshResp(t) ==
    /\ task[t].pc = "rf_post"
    /\ \/ Apply(t, RefreshReturn(State(t), FALSE))
       \/ /\ issued < MaxIssued
          /\ \E body \in TokenBodies :
               LET s == State(t) IN
               Apply(t, IF ~body.at THEN RefreshReturn(s, FALSE)
                        ELSE RefreshStore([s EXCEPT !.hist.rfBody = body],
                                          body, issued + 1))
    /\ UNCHANGED <<now, hasCreds, mode, capture, client,
                 rate_limit_store, served>>

\* ------------------------------------------------ _request: the responses
\* the 'items' of a 200 answer to the device listing: no garage door, one
\* with a serial number, one without
Items(t, st) ==
    IF task[t].stage = 1 /\ st = 200 THEN DeviceLists ELSE {"none"}

\* the door_state of the garage door in the listing that get_door_state()
\* reads for a door endpoint ("keep": the response is not such a listing)
DoorsSeen(t, st, items) ==
    IF /\ task[t].ep \in DoorEndpoints /\ task[t].dev = "get_door_state"
       /\ task[t].stage = 1 /\ st = 200 /\ items # "none"
    THEN DoorStates ELSE {"keep"}

\* a new Cloudflare cookie in the response is stored and saved at once
Harvest(s, h) ==
    IF HasCfBm(h) THEN SaveTokens([s EXCEPT !.tokens.cf_cookie = h]) ELSE s

\* the Set-Cookie header of the retry response is not looked at
RetryHarvest(s, h) == s

\* status 202, or the parsed body (val names the response it came from)
\* (variant: a 202 body is parsed like any other)
Result_Parse202(s, st, which) == Finish(s, "ok", which)

Result(s, st, which) ==
    IF st = 202 THEN Finish(s, "accepted", st) ELSE Finish(s, "ok", which)

\* json.loads(data.decode()) of the last lines: bytes that are not JSON text
\* raise out of _request
ParsedResult(s, st, which, data) ==
    IF st # 202 /\ data # Plain THEN Finish(s, "bad_body", st)
    ELSE Result(s, st, which)

RequestResp(t) ==
    /\ task[t].pc = "rq_wait"
    /\ \E st \in Statuses, h \in SetCookies, inp \in WireInputs :
       \E items \in Items(t, st) : \E door \in DoorsSeen(t, st, items) :
         LET dec == RequestDecode(inp.wire, inp.enc, inp.brotli)
             s0 == [State(t) EXCEPT !.tk.st1 = st, !.tk.nResp = @ + 1,
                                    !.tk.door = IF door = "keep" THEN @ ELSE door,
                                    !.hist.dec = DecNote("request", inp, dec)]
             s == Harvest([s0 EXCEPT !.tk.items = items,
                                     !.tk.seen = IF HasCfBm(h) THEN h
                                                 ELSE EmptyStr], h)
         IN Apply(t, IF dec.raised THEN Finish(s0, "decode_error", st)
                     ELSE IF st = 401 THEN LoginStart(s, "relogin")
                     ELSE IF st >= 400 THEN Finish(s, "api_error", st)
                     ELSE ParsedResult(s, st, 1, dec.v))
    /\ UNCHANGED <<now, hasCreds, mode, capture, client,
                 rate_limit_store, served>>

RetryResp(t) ==
    /\ task[t].pc = "rq_retry"
    /\ \E st \in Statuses, h \in SetCookies : \E items \in Items(t, st) :
       \E door \in DoorsSeen(t, st, items) :
         LET s == RetryHarvest([State(t) EXCEPT !.tk.st2 = st, !.tk.nResp = @ + 1,
                                                !.tk.door = IF door = "keep" THEN @
                                                            ELSE door,
                                                !.tk.items = items,
                                                !.tk.seen = IF HasCfBm(h) THEN h
                                                            ELSE EmptyStr], h)
         IN Apply(t, IF st >= 400 THEN Finish(s, "api_error", st)
                     ELSE Result(s, st, 2))
    /\ UNCHANGED <<now, hasCreds, mode, capture, client,
                 rate_limit_store, served>>

\* ------------------------------------------------------------ entry points
\* a call of _ensure_valid_token() or _request(): `async with self._lock`
Enter(t, op, gdo) ==
    LET s == [State(t) EXCEPT !.tk.op = op, !.tk.gdo = gdo,
                              !.tk.sawNone = (tokens = None)]
    IN Apply(t, IF lock = {} THEN EnsureBody(s)
                ELSE [s EXCEPT !.tk.pc = "ev_wait"])

\* in "seq" mode there is one caller, who makes one call after the other
MayCall(t) ==
    /\ task[t].pc = "idle"
    /\ mode \in {"seq", "login", "device", "shared", "decode"} => t = 1

CallEnsure(t) ==
    /\ MayCall(t)
    /\ Enter(t, "ensure", FALSE)
    /\ UNCHANGED <<now, hasCreds, mode, capture, client,
                 rate_limit_store, served>>

CallRequest(t) ==
    /\ MayCall(t)
    /\ \E gdo \in GdoChoices : Enter(t, "request", gdo)
    /\ UNCHANGED <<now, hasCreds, mode, capture, client,
                 rate_limit_store, served>>

\* server.py POST /refresh-token: api._refresh_token() called directly
CallRefreshEndpoint(t) ==
    /\ MayCall(t)
    /\ Apply(t, RefreshStart([State(t) EXCEPT !.tk.op = "refresh_ep",
                                              !.tk.sawNone = (tokens = None)]))
    /\ UNCHANGED <<now, hasCreds, mode, capture, client,
                 rate_limit_store, served>>

\* the public device operations of MyQAPI; each starts with get_devices
DeviceOps == {"get_devices", "get_garage_door", "get_door_state",
              "open_door", "close_door"}

CallDevice(t) ==
    /\ MayCall(t)
    /\ \E d \in DeviceOps : Apply(t, GetDevices([State(t) EXCEPT !.tk.dev = d]))
    /\ UNCHANGED <<now, hasCreds, mode, capture, client,
                 rate_limit_store, served>>

\* server.py GET /status and GET /devices: verify_api_key, rate_limit, then
\* the handler, which awaits one device operation inside try/except Exception
Endpoints == [status |-> "get_door_state", devices |-> "get_devices",
              open |-> "get_door_state", close |-> "get_door_state",
              toggle |-> "get_door_state"]

\* API_KEY of server.py: the placeholder it has when the environment sets
\* none, or a configured key; and the X-API-Key header of a request
DefaultApiKey == "your-secret-api-key"
ApiKeys == {DefaultApiKey, "k1"}
XApiKeys == {"missing", "k1", "k2"}

\* verify_api_key: TRUE when no HTTPException(401) is raised
VerifyApiKey(api_key, x_api_key) ==
    ~(api_key # DefaultApiKey /\ x_api_key # api_key)

CallEndpoint(t) ==
    /\ MayCall(t)
    /\ \E ep \in DOMAIN Endpoints, api_key \in ApiKeys, x_api_key \in XApiKeys,
          limited \in BOOLEAN :
         LET s == [State(t) EXCEPT !.tk.ep = ep,
                                   !.tk.keyBad = (x_api_key # api_key)]
             keyOk == VerifyApiKey(api_key, x_api_key)
         IN Apply(t, IF ~keyOk
                     THEN [Finish(s, "bad_key", 0) EXCEPT !.tk.http = 401]
                     ELSE IF limited
                     THEN [Finish(s, "rate_limited", 0) EXCEPT !.tk.http = 429]
                     ELSE GetDevices([s EXCEPT !.tk.dev = Endpoints[ep]]))
    /\ UNCHANGED <<now, hasCreds, mode, capture, client,
                 rate_limit_store, served>>

\* ------------------------------------------------- server.py: rate_limit
RateLimitRequests == 10
RateLimitWindow == 60
ClientIps == {"ip1", "ip2"}

\* rate_limit_store = {}: a client never seen has no entries
Store0 == [ip \in ClientIps |-> <<>>]

\* ghost: per client the accepted requests of the last RateLimitWindow seconds,
\* the last answer, and the requests of the other clients so far
Served0 == [recent |-> [ip \in ClientIps |-> <<>>], ip |-> "none", status |-> 0,
            flip |-> FALSE, other |-> 0]

\* [t for t in rate_limit_store[client_ip] if t > window_start]
Prune(xs, window_start) == SelectSeq(xs, LAMBDA x : x > window_start)

\* ghost: the accept times that lie less than RateLimitWindow before t
InWindow(xs, t) == SelectSeq(xs, LAMBDA x : t - x < RateLimitWindow)

\* (variant: the request is recorded before the limit is checked)
RateLimit_RecordsRejected(store, ip, t) ==
    LET kept == Prune(store[ip], t - RateLimitWindow)
    IN [store |-> [store EXCEPT ![ip] = Append(kept, t)],
        status |-> IF Len(kept) >= RateLimitRequests THEN 429 ELSE 200]

\* rate_limit(request) at time t: the pruned list is stored, then the request
\* is refused with 429 or its time is appended
RateLimit(store, ip, t) ==
    LET kept == Prune(store[ip], t - RateLimitWindow)
    IN IF Len(kept) >= RateLimitRequests
       THEN [store |-> [store EXCEPT ![ip] = kept], status |-> 429]
       ELSE [store |-> [store EXCEPT ![ip] = Append(kept, t)], status |-> 200]

\* a request of client ip reaches the limiter
RateRequest(ip) ==
    /\ mode = "rate"
    /\ ip # "ip1" => served.other < MaxOther
    /\ LET r == RateLimit(rate_limit_store, ip, now)
       IN /\ rate_limit_store' = r.store
          /\ served' = [recent |-> [served.recent EXCEPT ![ip] =
                                       IF r.status = 200 THEN Append(@, now) ELSE @],
                        ip |-> ip, status |-> r.status, flip |-> ~served.flip,
                        other |-> IF ip # "ip1" THEN served.other + 1
                                  ELSE served.other]
    /\ UNCHANGED <<now, tokens, file, lock, task, hasCreds, issued, hist, mode,
                   capture, client>>

\* time passes between two requests
RateTick ==
    /\ mode = "rate"
    /\ now + RateStep <= MaxRateTicks * RateStep
    /\ now' = now + RateStep
    /\ served' = [served EXCEPT !.recent =
                     [ip \in ClientIps |-> InWindow(served.recent[ip], now')]]
    /\ UNCHANGED <<tokens, file, lock, task, hasCreds, issued, hist, mode,
                   capture, client, rate_limit_store>>

\* ---------------------------------------------------------------- MyQClient
\* MyQClient.__init__: _api None, a free lock (made: pymyq API objects so far)
NoApi == 0
Client0 == [api |-> NoApi, lock |-> {}, made |-> 0]

\* authenticate(): `async with self._lock`, then pymyq.login(...) is awaited
Authenticate(t, f) ==
    IF client.lock = {}
    THEN /\ client' = [client EXCEPT !.lock = {t}]
         /\ task' = [task EXCEPT ![t] = [f EXCEPT !.pc = "cl_login",
                                                  !.nLogin = @ + 1]]
    ELSE /\ client' = client
         /\ task' = [task EXCEPT ![t] = [f EXCEPT !.pc = "cl_lock"]]

\* main.py get_client(): ensure_authenticated() of the singleton client
CallGetClient(t) ==
    /\ mode = "client"
    /\ task[t].pc = "idle"
    /\ LET f == [task[t] EXCEPT !.op = "ensure_authenticated",
                                !.sawNone = (client.api = NoApi)]
       IN IF client.api = NoApi THEN Authenticate(t, f)
          ELSE /\ client' = client
               /\ task' = [task EXCEPT ![t] = [f EXCEPT !.pc = "cl_refresh"]]
    /\ UNCHANGED <<now, tokens, file, lock, hasCreds, issued, hist, mode, capture,
                 rate_limit_store, served>>

\* the lock of MyQClient was released and this waiter holds it now
ClientLockAcquired(t) ==
    /\ task[t].pc = "cl_lock"
    /\ client.lock = {}
    /\ Authenticate(t, task[t])
    /\ UNCHANGED <<now, tokens, file, lock, hasCreds, issued, hist, mode, capture,
                 rate_limit_store, served>>

\* pymyq.login returns an API object or raises; every exception becomes
\* MyQAuthError, which get_client turns into HTTP 503
\* (val: the _api the caller goes on with)
ClientLoginResp(t) ==
    /\ task[t].pc = "cl_login"
    /\ \E ok \in BOOLEAN :
         IF ok
         THEN /\ client.made < MaxIssued
              /\ client' = [api |-> client.made + 1, lock |-> {},
                            made |-> client.made + 1]
              /\ task' = [task EXCEPT ![t] = [@ EXCEPT !.pc = "done", !.ret = "ok",
                                                       !.val = client.made + 1]]
         ELSE /\ client' = [client EXCEPT !.lock = {}]
              /\ task' = [task EXCEPT ![t] = [@ EXCEPT !.pc = "done",
                                                       !.ret = "auth_error",
                                                       !.http = 503]]
    /\ UNCHANGED <<now, tokens, file, lock, hasCreds, issued, hist, mode, capture,
                 rate_limit_store, served>>

\* self._api._refresh_token() returns, or raises and authenticate() is called
ClientRefreshResp(t) ==
    /\ task[t].pc = "cl_refresh"
    /\ \E ok \in BOOLEAN :
         IF ok
         THEN /\ client' = client
              /\ task' = [task EXCEPT ![t] = [@ EXCEPT !.pc = "done", !.ret = "ok",
                                                       !.val = client.api]]
         ELSE Authenticate(t, task[t])
    /\ UNCHANGED <<now, tokens, file, lock, hasCreds, issued, hist, mode, capture,
                 rate_limit_store, served>>

\* the request that called get_client is answered; its task serves the next
ClientReturn(t) ==
    /\ mode = "client"
    /\ task[t].pc = "done"
    /\ task' = [task EXCEPT ![t] = Frame0]
    /\ UNCHANGED <<now, tokens, file, lock, hasCreds, issued, hist, mode, capture,
                   client, rate_limit_store, served>>

\* (hist.scope: the scope stored by the latest successful login or refresh)
Hist0 == [logins |-> 0, loginFailed |-> FALSE, evs |-> {}, rfBody |-> None,
          loginTok |-> NoToken, loginEi |-> 0, scope |-> EmptyStr, pairs |-> {},
          dec |-> None, capture_count |-> 0]

\* "seq" mode: the caller is done with the result; the next call may start
Return(t) ==
    /\ OneAtATime
    /\ task[t].pc = "done"
    /\ task' = [task EXCEPT ![t] = Frame0]
    /\ hist' = [Hist0 EXCEPT !.scope = hist.scope]
    /\ UNCHANGED <<now, tokens, file, lock, hasCreds, issued, mode, capture, client,
                 rate_limit_store, served>>

\* POST /reset drops the instance; the next get_api() constructs a new one,
\* which loads the token file
ResetApi ==
    /\ mode \in {"seq", "load"}
    /\ \A t \in Tasks : task[t].pc = "idle"
    /\ tokens' = Load(file, now)
    /\ lock' = {}
    /\ hist' = [hist EXCEPT !.evs = {[e |-> "constructed", t |-> 0]},
                            !.rfBody = None, !.dec = None]
    /\ UNCHANGED <<now, file, task, hasCreds, issued, mode, capture, client,
                 rate_limit_store, served>>

\* the lock was released and this waiter is woken
LockAcquired(t) ==
    /\ task[t].pc = "ev_wait"
    /\ lock = {}
    /\ Apply(t, EnsureBody(State(t)))
    /\ UNCHANGED <<now, hasCreds, mode, capture, client,
                 rate_limit_store, served>>

\* a waiter of a free lock runs before the clock moves on
WakePending == lock = {} /\ \E t \in Tasks : task[t].pc = "ev_wait"

Tick ==
    /\ now + TickLen <= MaxTicks * TickLen
    /\ ~WakePending
    /\ now' = now + TickLen
    /\ hist' = [hist EXCEPT !.evs = {}, !.rfBody = None]
    /\ UNCHANGED <<tokens, file, lock, task, hasCreds, issued, mode, capture, client,
                 rate_limit_store, served>>

\* the clock reaches the time the earliest sleeper is woken
Wake(t) ==
    /\ mode \in {"login", "live", "pkce"}
    /\ task[t].pc = "lg_sleep"
    /\ now < task[t].wake
    /\ \A u \in Tasks : task[u].pc = "lg_sleep" => task[t].wake <= task[u].wake
    /\ now' = task[t].wake
    /\ hist' = [hist EXCEPT !.evs = {}, !.rfBody = None]
    /\ UNCHANGED <<tokens, file, lock, task, hasCreds, issued, mode, capture, client,
                 rate_limit_store, served>>

\* ------------------------------------------------------------------- Init
\* token files left by an earlier run: none, or one written by _save_tokens
InitFiles ==
    {NoFile} \cup
    {Dump(TokenInfo(1, 1, exp, "acc1", "GD1", cf, DefaultScope)) :
        exp \in {0, GraceWindow + TickLen}, cf \in {EmptyStr, "__cf_bm=c1"}}


InitCommon ==
    /\ now = 0
    /\ tokens = Load(file, now)
    /\ lock = {}
    /\ task = [t \in Tasks |-> Frame0]
    /\ issued = 1
    /\ capture = IF mode \in {"load", "shared", "decode", "proxy"} THEN ProxyLoad(file) ELSE EmptyDict
    /\ client = Client0
    /\ rate_limit_store = Store0
    /\ served = Served0
    /\ hist = [Hist0 EXCEPT !.scope = IF tokens = None THEN EmptyStr
                                      ELSE tokens.token_scope]

Init ==
    /\ mode = "seq"
    /\ file \in InitFiles
    /\ hasCreds \in BOOLEAN
    /\ InitCommon

InitEnsure ==
    /\ mode = "lock"
    /\ file \in InitFiles
    /\ hasCreds \in BOOLEAN
    /\ InitCommon

\* overlapping calls: credentials are configured; no token yet, or an expired one
InitConc ==
    /\ mode = "conc"
    /\ file \in {f \in InitFiles : f = NoFile \/ (f.expires_at = 0 /\ f.cf_cookie # EmptyStr)}
    /\ hasCreds = TRUE
    /\ InitCommon

Step(t) ==
    \/ CallEnsure(t)
    \/ CallRequest(t)
    \/ CallRefreshEndpoint(t)
    \/ AuthorizeResp(t)
    \/ PostResp(t)
    \/ FollowResp(t)
    \/ ExchangeResp(t)
    \/ AccountsResp(t)
    \/ DevicesResp(t)
    \/ RefreshResp(t)
    \/ RequestResp(t)
    \/ RetryResp(t)

Next ==
    \/ Tick
    \/ ResetApi
    \/ \E t \in Tasks :
         \/ Step(t)
         \/ SleepDone(t)
         \/ PageResp(t)
         \/ Return(t)

NextConc ==
    \E t \in Tasks :
         \/ Step(t)
         \/ LockAcquired(t)

\* calls one after the other, against every provider behaviour
Spec == Init /\ [][Next]_vars

NextEnsure ==
    \/ Tick
    \/ \E t \in Tasks :
         \/ CallEnsure(t)
         \/ LockAcquired(t)
         \/ AuthorizeResp(t)
         \/ SleepDone(t)
         \/ PageResp(t)
         \/ PostResp(t)
         \/ FollowResp(t)
         \/ ExchangeResp(t)
         \/ AccountsResp(t)
         \/ DevicesResp(t)
         \/ RefreshResp(t)

\* overlapping calls of _ensure_valid_token only
SpecEnsure == InitEnsure /\ [][NextEnsure]_vars

\* overlapping calls within one instant of the clock
SpecConc == InitConc /\ [][NextConc]_vars

InitLogin ==
    /\ mode = "login"
    /\ file \in InitFiles
    /\ hasCreds \in BOOLEAN
    /\ InitCommon

NextLogin ==
    \E t \in Tasks :
         \/ Step(t)
         \/ SleepDone(t)
         \/ PageResp(t)
         \/ Wake(t)

\* one call, with the time its login spends in back-off sleeps
SpecLogin == InitLogin /\ [][NextLogin]_vars

\* token files found at start-up: also one written by update_tokens when no
\* file existed
InitDeviceFiles ==
    InitFiles \cup
    {UpdateTokensData(EmptyDict, 1, 1, GraceWindow + TickLen, cf) :
        cf \in CapturedCookies}

InitDevice ==
    /\ mode = "device"
    /\ file \in InitDeviceFiles
    /\ hasCreds \in BOOLEAN
    /\ InitCommon

NextDevice ==
    \E t \in Tasks :
         \/ CallDevice(t)
         \/ CallEndpoint(t)
         \/ AuthorizeResp(t)
         \/ PostResp(t)
         \/ FollowResp(t)
         \/ ExchangeResp(t)
         \/ AccountsResp(t)
         \/ DevicesResp(t)
         \/ RefreshResp(t)
         \/ RequestResp(t)
         \/ RetryResp(t)

\* one device operation, called directly or through the REST server
SpecDevice == InitDevice /\ [][NextDevice]_vars

InitLive ==
    /\ mode = "live"
    /\ file \in InitFiles
    /\ hasCreds \in BOOLEAN
    /\ InitCommon

\* what task t does next once it has called: a response arrives, a sleep is
\* over, the lock is handed over
Progress(t) ==
    \/ LockAcquired(t)
    \/ AuthorizeResp(t)
    \/ SleepDone(t)
    \/ PageResp(t)
    \/ PostResp(t)
    \/ FollowResp(t)
    \/ ExchangeResp(t)
    \/ AccountsResp(t)
    \/ DevicesResp(t)
    \/ RefreshResp(t)

\* some task that has called goes on, or the clock reaches a wake-up time
Running == \E t \in Tasks : Progress(t) \/ Wake(t)

NextLive ==
    \/ \E t \in Tasks : CallEnsure(t)
    \/ Running

\* overlapping calls of _ensure_valid_token, one per task; every request gets
\* a response, the clock reaches every wake-up time and the event loop runs
\* every task that can run
SpecLive ==
    /\ InitLive
    /\ [][NextLive]_vars
    /\ WF_vars(Running)

InitPkce ==
    /\ mode = "pkce"
    /\ file = NoFile
    /\ hasCreds = TRUE
    /\ InitCommon

NextPkce ==
    \E t \in Tasks :
         \/ CallRequest(t)
         \/ LockAcquired(t)
         \/ AuthorizeResp(t)
         \/ SleepDone(t)
         \/ Wake(t)
         \/ PostResp(t)
         \/ FollowResp(t)
         \/ ExchangeResp(t)
         \/ AccountsResp(t)
         \/ DevicesResp(t)
         \/ RequestResp(t)
         \/ RetryResp(t)

\* overlapping _request calls, one per task, whose logins may be rate limited
SpecPkce == InitPkce /\ [][NextPkce]_vars

InitClient ==
    /\ mode = "client"
    /\ file = NoFile
    /\ hasCreds = TRUE
    /\ InitCommon

NextClient ==
    \E t \in Tasks :
         \/ CallGetClient(t)
         \/ ClientLockAcquired(t)
         \/ ClientLoginResp(t)
         \/ ClientRefreshResp(t)
         \/ ClientReturn(t)

\* overlapping requests of main.py, each authenticating the MyQClient singleton
SpecClient == InitClient /\ [][NextClient]_vars

\* token files found at start-up: also broken ones and ones left half-written
\* by the capture proxy
InitLoadFiles ==
    InitFiles \cup
    {NotJson, [access_token |-> 1, expires_at |-> GraceWindow + TickLen],
     [refresh_token |-> 1], [cf_cookie |-> "__cf_bm=c1"]}

InitLoad ==
    /\ mode = "load"
    /\ file \in InitLoadFiles
    /\ hasCreds = TRUE
    /\ InitCommon

NextLoad ==
    \/ ResetApi
    \/ ProxyRequest
    \/ ProxyResponse
    \/ UpdateTokens
    \/ BrowserLogin

\* the writers of the token file and the construction of MyQAPI
SpecLoad == InitLoad /\ [][NextLoad]_vars

\* one call on a live instance while the capture proxy and update_tokens
\* write the same token file
InitShared ==
    /\ mode = "shared"
    /\ file \in InitFiles
    /\ hasCreds = TRUE
    /\ InitCommon

NextShared ==
    \/ UpdateTokens
    \/ ProxyResponse
    \/ \E t \in Tasks : Step(t)

SpecShared == InitShared /\ [][NextShared]_vars

\* response bodies in every encoding, seen by the capture proxy and by one
\* _request of an instance whose token is valid
InitDecode ==
    /\ mode = "decode"
    /\ file = Dump(TokenInfo(1, 1, GraceWindow + TickLen, "acc1", "GD1",
                             "__cf_bm=c1", DefaultScope))
    /\ hasCreds = TRUE
    /\ InitCommon

NextDecode ==
    \/ ProxyResponse
    \/ \E t \in Tasks : CallRequest(t) \/ RequestResp(t)

SpecDecode == InitDecode /\ [][NextDecode]_vars

\* the requests of two clients at the rate limiter of the server
InitRate ==
    /\ mode = "rate"
    /\ file = NoFile
    /\ hasCreds = TRUE
    /\ InitCommon

NextRate ==
    \/ RateTick
    \/ \E ip \in ClientIps : RateRequest(ip)

SpecRate == InitRate /\ [][NextRate]_vars

\* the flows of every host through the capture proxy
InitProxy ==
    /\ mode = "proxy"
    /\ file \in {NoFile, Dump(TokenInfo(1, 1, GraceWindow + TickLen, "acc1",
                                        EmptyStr, EmptyStr, DefaultScope))}
    /\ hasCreds = TRUE
    /\ InitCommon

NextProxy ==
    \/ ProxyRequest
    \/ ProxyResponse

SpecProxy == InitProxy /\ [][NextProxy]_vars

\* ======================================================== the properties
LoginPcs == {"lg_authorize", "lg_sleep", "lg_page", "lg_post", "lg_follow",
             "lg_exchange", "lg_accounts", "lg_devices"}

\* task t has a login or a refresh waiting on the network
InFlight(t) == task[t].pc \in LoginPcs \cup {"rf_post"}

\* every task called _ensure_valid_token while tokens was None, and no login failed
AllCalledAbsent ==
    /\ \A t \in Tasks : task[t].op = "ensure" /\ task[t].sawNone
    /\ ~hist.loginFailed

OneLoginForAll ==
    /\ hist.logins <= 1
    /\ \A t \in Tasks : task[t].pc = "done" =>
          task[t].ret = "ok" /\ task[t].retTok = hist.loginTok

\* C1 (as stated): N callers of _ensure_valid_token on an Absent instance, the
\* provider accepting the login: one login in total, and every caller returns
\* with tokens holding the token of that login.
C1_OneLoginForAllCallers == AllCalledAbsent => OneLoginForAll

\* C1 (amended): the same, when the accepted login's token is issued with
\* expires_in > 360 s, so that it is outside the grace window when the
\* waiting callers run.
C1_OneLoginWhenTokenOutlivesGrace ==
    (AllCalledAbsent /\ (hist.loginTok # NoToken =>
                            hist.loginEi > GraceWindow + ExpirySkew))
       => OneLoginForAll

C1_Witness ==
    /\ AllCalledAbsent
    /\ hist.logins = 1
    /\ hist.loginTok # NoToken
    /\ hist.loginEi > GraceWindow + ExpirySkew
    /\ \A t \in Tasks : task[t].pc = "done" /\ task[t].retTok = hist.loginTok
    /\ \E t \in Tasks : task[t].nLogin = 0

\* C2: at most one login or refresh of the instance is in flight at any time,
\* whichever entry point started it.
C2_AtMostOneInFlight == Cardinality({t \in Tasks : InFlight(t)}) <= 1

\* C3: in _request, a 401 is followed by one re-login and one retry; the retry
\* carries the access token of that login; a 200 retry gives the caller the
\* second response, a 401 retry an API error; there is never a third request
\* or a second re-login.
C3_OneReloginOneRetry ==
    \A t \in Tasks :
       LET f == task[t] IN
       /\ f.nSend <= 2
       /\ f.nRelogin <= 1
       /\ f.pc = "rq_retry" =>
             f.st1 = 401 /\ f.nRelogin = 1 /\ f.nSend = 2
             /\ f.req.auth = f.loginTok /\ f.loginTok # NoToken
       /\ (f.pc = "done" /\ f.st1 = 401 /\ f.st2 = 200) =>
             f.nRelogin = 1 /\ f.nSend = 2 /\ f.req.auth = f.loginTok
             /\ f.ret = "ok" /\ f.val = 2
       /\ (f.pc = "done" /\ f.st1 = 401 /\ f.st2 = 401) =>
             f.nRelogin = 1 /\ f.nSend = 2 /\ f.ret = "api_error" /\ f.val = 401

C3_Witness ==
    \E t \in Tasks :
       /\ task[t].pc = "done" /\ task[t].st1 = 401 /\ task[t].st2 = 200
       /\ task[t].ret = "ok" /\ task[t].val = 2
       /\ task[t].req.auth = task[t].loginTok

\* C4: a step in which a login or a refresh that was waiting on the network
\* fails leaves the in-memory TokenInfo and the token file as they were.
C4_FailureKeepsTokens ==
    [][\A t \in Tasks :
          (\/ ([e |-> "refresh_failed", t |-> t] \in hist'.evs
                 /\ task[t].pc = "rf_post")
           \/ ([e |-> "login_failed", t |-> t] \in hist'.evs
                 /\ task[t].pc \in LoginPcs))
          => (tokens' = tokens /\ file' = file)]_vars

\* C5: when the refresh of a token inside the grace window fails, the call of
\* _ensure_valid_token logs in exactly once: after a successful login it returns
\* normally with the new token stored and persisted, after a failed login it
\* raises, and no second login is started.
C5_RefreshThenOneLogin ==
    \A t \in Tasks :
       LET f == task[t] IN
       (f.op = "ensure" /\ f.rf = "failed") =>
          /\ f.nLogin = 1
          /\ f.pc \in LoginPcs \cup {"done"}
          /\ (f.pc = "done" /\ f.loginTok # NoToken) =>
                f.ret = "ok" /\ f.retTok = f.loginTok /\ f.retFileTok = f.loginTok
          /\ (f.pc = "done" /\ f.loginTok = NoToken) => f.ret = "auth_error"

C5_Witness ==
    \E t \in Tasks :
       /\ task[t].op = "ensure" /\ task[t].rf = "failed" /\ task[t].pc = "done"
       /\ task[t].nRefresh = 1 /\ task[t].nLogin = 1
       /\ task[t].ret = "ok" /\ task[t].retTok = task[t].loginTok
       /\ tokens.access_token = task[t].loginTok

\* task t runs the body of _ensure_valid_token in this step
RunsEnsure(t) ==
    /\ task[t].pc \in {"idle", "ev_wait"}
    /\ task'[t].pc \notin {"idle", "ev_wait"}
    /\ task'[t].op = "ensure"

\* C6: a call of _ensure_valid_token made while a token exists and
\* now < expires_at - 300 does no login, no refresh and no request and leaves
\* the TokenInfo and the token file unchanged, however often it is repeated.
C6_ValidTokenNoOp ==
    [][\A t \in Tasks :
          (RunsEnsure(t) /\ tokens # None
             /\ now < tokens.expires_at - GraceWindow)
          => /\ task'[t].pc = "done" /\ task'[t].ret = "ok"
             /\ task'[t].nLogin = 0 /\ task'[t].nRefresh = 0
             /\ task'[t].nSend = 0
             /\ hist'.logins = hist.logins /\ hist'.evs = {}
             /\ tokens' = tokens /\ file' = file /\ lock' = lock]_vars

C6_Witness ==
    \E t \in Tasks :
       /\ task[t].pc = "done" /\ task[t].op = "ensure" /\ task[t].ret = "ok"
       /\ task[t].nLogin = 0 /\ task[t].nRefresh = 0
       /\ tokens # None /\ now < tokens.expires_at - GraceWindow
       /\ now > 0

\* C7: when tokens is None and the login fails, _ensure_valid_token raises,
\* tokens stays None, the file is not written and the lock is free again.
C7_AbsentLoginFailure ==
    [][\A t \in Tasks :
          ([e |-> "login_failed", t |-> t] \in hist'.evs
             /\ task'[t].op = "ensure" /\ tokens = None)
          => /\ task'[t].pc = "done" /\ task'[t].ret = "auth_error"
             /\ tokens' = None /\ file' = file /\ lock' = {}]_vars

\* a caller has raised on an Absent instance and a later caller is logging in
C7_Witness ==
    /\ tokens = None /\ file = NoFile
    /\ \E t, u \in Tasks :
          /\ task[t].pc = "done" /\ task[t].ret = "auth_error" /\ task[t].sawNone
          /\ task[u].pc = "lg_exchange" /\ lock = {u}

\* C8: a response handled by _request (first or retry) that sets a new __cf_bm
\* cookie leaves that value in tokens.cf_cookie and in the file, and every
\* request then sent to the GDO host carries the stored value.
C8_CookieRotation ==
    [][\A t \in Tasks :
          /\ (task'[t].nResp > task[t].nResp /\ task'[t].seen # EmptyStr)
                => (tokens'.cf_cookie = task'[t].seen
                    /\ file'.cf_cookie = task'[t].seen)
          /\ (task'[t].nSend > task[t].nSend /\ task'[t].gdo)
                => task'[t].req.cookie = tokens'.cf_cookie]_vars

\* C9: a 200 refresh response with access_token and expires_in but without
\* refresh_token keeps the stored refresh_token, replaces access_token and
\* expires_at, and the result is persisted.
C9_RefreshKeepsRefreshToken ==
    [][\A t \in Tasks :
          (task[t].pc = "rf_post" /\ hist'.rfBody # None
             /\ hist'.rfBody.at /\ ~hist'.rfBody.rt
             /\ hist'.rfBody.ei.kind = "int")
          => /\ [e |-> "refresh_ok", t |-> t] \in hist'.evs
             /\ tokens'.refresh_token = tokens.refresh_token
             /\ tokens'.access_token = issued'
             /\ tokens'.access_token # tokens.access_token
             /\ tokens'.expires_at = now + hist'.rfBody.ei.v - ExpirySkew
             /\ file' = Dump(tokens')]_vars

C9_Witness ==
    /\ hist.rfBody # None
    /\ hist.rfBody.at /\ ~hist.rfBody.rt /\ hist.rfBody.ei.kind = "int"
    /\ \E t \in Tasks : [e |-> "refresh_ok", t |-> t] \in hist.evs
    /\ tokens.refresh_token # NoToken
    /\ tokens.refresh_token # tokens.access_token
    /\ file = Dump(tokens)

\* C10: the scope sent in the authorization_code exchange is the scope parsed
\* from the final redirect of the same login.
C10_ExchangeSendsGrantedScope ==
    \A t \in Tasks :
       task[t].pc = "lg_exchange" => task[t].exScope = task[t].scope

\* C11: the scope sent in a refresh request is the scope stored by the latest
\* successful login (the granted scope of its redirect) or refresh (the scope
\* of its response), whatever saves and reloads of the file came in between.
C11_RefreshSendsStoredScope ==
    \A t \in Tasks : task[t].pc = "rf_post" => task[t].rfScope = hist.scope

\* a refresh is sent with a scope other than the default one
C11_Witness ==
    \E t \in Tasks :
       /\ task[t].pc = "rf_post" /\ task[t].rfScope = NarrowScope
       /\ hist.scope = NarrowScope /\ file.token_scope = NarrowScope

\* C12: tokens is None, or a TokenInfo with a non-empty refresh_token and, when
\* access_token is non-empty, an expires_at that is set.
C12_TokensCompleteEnough ==
    tokens # None =>
       /\ tokens.refresh_token # NoToken
       /\ tokens.access_token # NoToken => tokens.expires_at \in Int

\* C13: a login() that has just returned True leaves a TokenInfo with non-empty
\* access_token and refresh_token and with expires_at > now.
C13_LoginLeavesLiveToken ==
    \A t \in Tasks :
       [e |-> "login_ok", t |-> t] \in hist.evs =>
          /\ tokens.access_token # NoToken
          /\ tokens.refresh_token # NoToken
          /\ tokens.expires_at > now

\* the file cannot be loaded: missing, not JSON, or without one of the two keys
BadFile(f) ==
    \/ f = NoFile
    \/ f = NotJson
    \/ "access_token" \notin DOMAIN f
    \/ "refresh_token" \notin DOMAIN f

\* C14: constructing MyQAPI on a token file that is missing, is not JSON or
\* lacks access_token or refresh_token leaves tokens None and the file as it is.
C14_BadFileStartsAbsent ==
    [][([e |-> "constructed", t |-> 0] \in hist'.evs /\ BadFile(file))
          => (tokens' = None /\ file' = file)]_vars

\* MyQAPI was constructed on a file that has an access token but no refresh token
C14_Witness ==
    /\ [e |-> "constructed", t |-> 0] \in hist.evs
    /\ file # NoFile /\ file # NotJson
    /\ "access_token" \in DOMAIN file /\ "refresh_token" \notin DOMAIN file
    /\ tokens = None

\* C15: a file just written by the capture proxy, update_tokens or browser_login
\* that holds a captured access token is loaded by _load_tokens with the
\* file's access_token, refresh_token, expires_at, cf_cookie and granted scope.
C15_ExternalFileLoads ==
    ([e |-> "file_written", t |-> 0] \in hist.evs
       /\ "access_token" \in DOMAIN file)
    => LET tk == Load(file, now) IN
       /\ tk # None
       /\ tk.access_token = file.access_token
       /\ tk.refresh_token = file.refresh_token
       /\ tk.expires_at = file.expires_at
       /\ tk.cf_cookie = Get(file, "cf_cookie", EmptyStr)
       /\ tk.token_scope = Get(file, "token_scope", Get(file, "scope", DefaultScope))

\* C16: a login page with a Cloudflare challenge marker makes login() fail with
\* the challenge error before any credential POST, redirect follow or token
\* exchange; the login is not retried and tokens and file stay as they were.
C16_ChallengeStopsLogin ==
    [][\A t \in Tasks :
          [e |-> "challenge", t |-> t] \in hist'.evs =>
             /\ [e |-> "challenge_required", t |-> t] \in hist'.evs
             /\ [e |-> "login_failed", t |-> t] \in hist'.evs
             /\ task[t].reqs.post = 0 /\ task[t].reqs.follow = 0
             /\ task[t].reqs.exch = 0
             /\ task'[t].pc = "done"
             /\ task'[t].nLogin = task[t].nLogin /\ hist'.logins = hist.logins
             /\ tokens' = tokens /\ file' = file]_vars

\* a login has just failed on a challenge page while a token was stored
C16_Witness ==
    \E t \in Tasks :
       /\ [e |-> "challenge", t |-> t] \in hist.evs
       /\ [e |-> "challenge_required", t |-> t] \in hist.evs
       /\ task[t].pc = "done" /\ task[t].ret \in {"auth_error", "login_error"}
       /\ tokens # None

\* the credential POST of task t is answered with r: login fails with why,
\* nothing more is sent and tokens and file stay as they were
PostFails(t, r, why) ==
    [e |-> r, t |-> t] \in hist'.evs =>
       /\ [e |-> why, t |-> t] \in hist'.evs
       /\ [e |-> "login_failed", t |-> t] \in hist'.evs
       /\ task[t].reqs.follow = 0 /\ task[t].reqs.exch = 0
       /\ task'[t].pc = "done"
       /\ tokens' = tokens /\ file' = file

\* C17 (as stated): a redirect with fewer than two cookies is an
\* invalid-credentials error, any non-redirect status a login-failed error.
C17_PostFailures ==
    [][\A t \in Tasks :
          /\ PostFails(t, "few_cookies", "invalid_credentials")
          /\ PostFails(t, "not_redirect", "login_status")
          /\ PostFails(t, "not_redirect_invalid", "login_status")]_vars

\* C17 (amended): a non-redirect status whose body says 'invalid' or
\* 'incorrect' is an invalid-credentials error too; only the other
\* non-redirect answers are login-failed errors.
C17_PostFailuresByBody ==
    [][\A t \in Tasks :
          /\ PostFails(t, "few_cookies", "invalid_credentials")
          /\ PostFails(t, "not_redirect", "login_status")
          /\ PostFails(t, "not_redirect_invalid", "invalid_credentials")]_vars

\* a login has just failed on a redirect with too few cookies
C17_Witness ==
    \E t \in Tasks :
       /\ [e |-> "few_cookies", t |-> t] \in hist.evs
       /\ [e |-> "invalid_credentials", t |-> t] \in hist.evs
       /\ task[t].pc = "done" /\ task[t].ret \in {"auth_error", "login_error"}
       /\ tokens # None

\* C18: one login() sends the authorize GET at most max_retries times, waits
\* 60*k seconds after the k-th 429 before the next GET, fails without a
\* credential POST when every attempt is answered 429, and sends every other
\* request of the chain at most once.
C18_BoundedBackoff ==
    [][\A t \in Tasks :
          /\ task'[t].reqs.auth <= MaxRetries
          /\ task'[t].reqs.page <= 1 /\ task'[t].reqs.post <= 1
          /\ task'[t].reqs.follow <= 1 /\ task'[t].reqs.exch <= 1
          /\ (task[t].pc = "lg_authorize" /\ task'[t].pc = "lg_sleep")
                => task'[t].wake = now + BackoffUnit * task[t].reqs.auth
          /\ (task[t].pc = "lg_sleep" /\ task'[t].pc # "lg_sleep")
                => now >= task[t].wake
          /\ [e |-> "rate_limited", t |-> t] \in hist'.evs
                => /\ task[t].reqs.auth = MaxRetries
                   /\ task[t].reqs.post = 0 /\ task[t].reqs.page = 0
                   /\ task'[t].pc = "done"]_vars

\* every attempt was answered 429 and the login has given up after 360 s
C18_Witness ==
    \E t \in Tasks :
       /\ [e |-> "rate_limited", t |-> t] \in hist.evs
       /\ task[t].pc = "done"
       /\ now >= BackoffUnit * 6

\* C19: a final redirect without Location header or without 'code' parameter
\* makes login() fail with the missing-code error; no token exchange is sent
\* and tokens and file stay as they were.
C19_MissingCode ==
    [][\A t \in Tasks :
          ([e |-> "no_location", t |-> t] \in hist'.evs
             \/ [e |-> "no_code", t |-> t] \in hist'.evs)
          => /\ [e |-> "missing_code", t |-> t] \in hist'.evs
             /\ [e |-> "login_failed", t |-> t] \in hist'.evs
             /\ task[t].reqs.exch = 0 /\ task'[t].pc = "done"
             /\ tokens' = tokens /\ file' = file]_vars

\* a login has just failed on a Location without code while a token was stored
C19_Witness ==
    \E t \in Tasks :
       /\ [e |-> "no_code", t |-> t] \in hist.evs
       /\ [e |-> "missing_code", t |-> t] \in hist.evs
       /\ task[t].pc = "done" /\ tokens # None

\* C20: a first response with status >= 400 other than 401 ends _request with
\* an API error carrying that status, after one request and without login,
\* refresh or retry; a 202, first or retried, gives the accepted
\* acknowledgement.
C20_ErrorAndAccepted ==
    [][\A t \in Tasks :
          /\ (task[t].pc = "rq_wait" /\ task'[t].nResp > task[t].nResp
                 /\ task'[t].st1 >= 400 /\ task'[t].st1 # 401)
                => /\ task'[t].pc = "done" /\ task'[t].ret = "api_error"
                   /\ task'[t].val = task'[t].st1
                   /\ task'[t].nSend = 1
                   /\ task'[t].nLogin = task[t].nLogin
                   /\ task'[t].nRefresh = task[t].nRefresh
                   /\ hist'.logins = hist.logins
          /\ (task[t].pc = "rq_wait" /\ task'[t].nResp > task[t].nResp
                 /\ task'[t].st1 = 202)
                => /\ task'[t].pc = "done" /\ task'[t].ret = "accepted"
                   /\ task'[t].nSend = 1
          /\ (task[t].pc = "rq_retry" /\ task'[t].nResp > task[t].nResp
                 /\ task'[t].st2 = 202)
                => /\ task'[t].pc = "done" /\ task'[t].ret = "accepted"
                   /\ task'[t].nSend = 2]_vars

\* a retried request was answered 202
C20_Witness ==
    \E t \in Tasks :
       /\ task[t].pc = "done" /\ task[t].st1 = 401 /\ task[t].st2 = 202
       /\ task[t].ret = "accepted" /\ task[t].nSend = 2

\* a request was answered 404
C20_WitnessError ==
    \E t \in Tasks :
       /\ task[t].pc = "done" /\ task[t].st1 = 404
       /\ task[t].ret = "api_error" /\ task[t].val = 404

\* C21: a request waiting for its response was sent with the access token that
\* was stored when it went out, and with the stored cookie exactly when the
\* target is the GDO host and a cookie was stored then.
C21_RequestHeaders ==
    \A t \in Tasks :
       task[t].pc \in {"rq_wait", "rq_retry"} =>
          /\ task[t].req.auth = task[t].sent.auth
          /\ task[t].req.cookie =
                IF task[t].gdo /\ task[t].sent.cookie # EmptyStr
                THEN task[t].sent.cookie ELSE EmptyStr

\* C25: a step that changes a field of tokens is taken by the task that holds
\* the lock, or changes cf_cookie only.
C25_WritesUnderLock ==
    [][tokens' # tokens =>
          \/ \E t \in Tasks : lock = {t} /\ task'[t] # task[t]
          \/ /\ tokens # None /\ tokens' # None
             /\ [tokens' EXCEPT !.cf_cookie = tokens.cf_cookie] = tokens]_vars

\* C27: with a token present, _ensure_valid_token calls _refresh_token exactly
\* when now < expires_at - 300 is false (so also at now = expires_at - 300),
\* and it logs in only after that refresh has failed.
C27_RefreshAtBoundary ==
    [][\A t \in Tasks :
          /\ (RunsEnsure(t) /\ tokens # None) =>
                ((~(now < tokens.expires_at - GraceWindow))
                   <=> (task'[t].nRefresh = 1 \/ task'[t].rf # "none"))
          /\ (task'[t].op = "ensure" /\ ~task'[t].sawNone /\ task'[t].nLogin > 0)
                => task'[t].rf = "failed"]_vars

\* C22: a device operation called while tokens is None starts a login.
C22_DeviceCallStartsLogin ==
    [][\A t \in Tasks :
          (task[t].pc = "idle" /\ task'[t].dev # "none" /\ tokens = None)
             => task'[t].nLogin = 1]_vars

\* C23: a device call that was made with an empty account_id (a token loaded
\* from a file of update_tokens) and succeeded leaves account_id and
\* device_serial non-empty in memory and in the file.
C23_LazyIdentifiers ==
    \A t \in Tasks :
       (/\ task[t].pc = "done" /\ task[t].dev # "none"
        /\ task[t].ret \in {"ok", "accepted"}
        /\ task[t].path # <<>> /\ task[t].path[1] = EmptyStr)
       => /\ tokens.account_id # EmptyStr /\ tokens.device_serial # EmptyStr
          /\ file.account_id # EmptyStr /\ file.device_serial # EmptyStr

\* C24: an endpoint answers an authentication failure with 503, a rejected
\* downstream call with 502 and an invalid caller request with a 4xx status.
C24_DistinctFailureStatus ==
    \A t \in Tasks :
       (task[t].pc = "done" /\ task[t].ep # "none") =>
          /\ task[t].ret \in {"auth_error", "login_error"} => task[t].http = 503
          /\ task[t].ret = "api_error" => task[t].http = 502
          /\ task[t].ret \in {"bad_key", "rate_limited"}
                => task[t].http \in 400..499

\* C26: when every task called ensure_authenticated() while _api was None and
\* every one of them returned normally, pymyq.login was called once and all of
\* them go on with the same _api object.
C26_OneClientLogin ==
    (\A t \in Tasks : /\ task[t].pc = "done" /\ task[t].op = "ensure_authenticated"
                      /\ task[t].sawNone /\ task[t].ret = "ok")
    => /\ Cardinality({t \in Tasks : task[t].nLogin > 0}) = 1
       /\ \A t, u \in Tasks : task[t].val = task[u].val

\* C28: from some point on every call of _ensure_valid_token() that was made
\* has ended (returned or raised), so no task waits for the lock or for a
\* response for ever; a task that has ended does not hold the lock.
C28_EnsureTerminates ==
    /\ <>[](\A t \in Tasks : task[t].pc \in {"idle", "done"})
    /\ [](\A t \in Tasks : task[t].pc = "done" => t \notin lock)

\* a caller that waited while another task's login slept through two 429
\* answers and then succeeded
C28_Witness ==
    /\ lock = {}
    /\ \E t, u \in Tasks :
         /\ task[t].pc = "done" /\ task[t].nLogin = 1 /\ task[t].ret = "ok"
         /\ now >= BackoffUnit + 2 * BackoffUnit
         /\ task[u].pc = "done" /\ task[u].sawNone /\ task[u].nLogin = 0
         /\ task[u].ret = "ok"

\* C29: a request of the login chain (the login-page fetch, the credential
\* POST, the final redirect GET) carries every cookie that an earlier response
\* of the same login has set.
C29_CookiesAccumulate ==
    \A t \in Tasks :
       task[t].pc \in {"lg_page", "lg_post", "lg_follow"}
          => ExtractCookies(task[t].got) \subseteq task[t].wire

\* C30: a running login() has a pair of its own; every authorize GET of the
\* call sent the challenge of that pair and its token exchange sent the
\* verifier of that pair; no pair was sent by two login calls.
C30_OnePkcePairPerLogin ==
    /\ \A t \in Tasks :
          task[t].pc \in LoginPcs =>
             /\ task[t].challenges = {Challenge(task[t].code_verifier)}
             /\ task[t].pc \in {"lg_exchange", "lg_accounts", "lg_devices"}
                   => task[t].sentVerifier = task[t].code_verifier
    /\ \A t, u \in Tasks :
          (t # u /\ task[t].pc \in LoginPcs /\ task[u].pc \in LoginPcs)
             => task[t].code_verifier # task[u].code_verifier
    /\ \A p, q \in hist.pairs : p.pair = q.pair => p.login = q.login

\* a login that was rate limited twice is at its token exchange while another
\* login runs on the same instance
C30_Witness ==
    \E t, u \in Tasks :
       /\ t # u
       /\ task[t].pc = "lg_exchange" /\ task[t].attempt = 2
       /\ task[t].reqs.auth = 3
       /\ task[u].pc \in LoginPcs

\* C31: a step in which _refresh_token() succeeded leaves account_id,
\* device_serial and cf_cookie of the TokenInfo as they were (only
\* access_token, refresh_token, expires_at and token_scope may differ), and
\* when it ran inside _ensure_valid_token() that call starts no login.
C31_RefreshFrame ==
    [][\A t \in Tasks :
          (task[t].pc = "rf_post" /\ [e |-> "refresh_ok", t |-> t] \in hist'.evs)
          => /\ tokens # None /\ tokens' # None
             /\ [tokens' EXCEPT !.access_token = tokens.access_token,
                                !.refresh_token = tokens.refresh_token,
                                !.expires_at = tokens.expires_at,
                                !.token_scope = tokens.token_scope] = tokens
             /\ task[t].op # "refresh_ep"
                   => /\ task'[t].nLogin = task[t].nLogin
                      /\ hist'.logins = hist.logins
                      /\ task'[t].pc \notin LoginPcs]_vars

\* a refresh that succeeded inside _ensure_valid_token() on a token that has
\* an account, a serial number and a cookie, and that changed the scope
C31_Witness ==
    \E t \in Tasks :
       /\ [e |-> "refresh_ok", t |-> t] \in hist.evs
       /\ task[t].op # "refresh_ep" /\ task[t].nRefresh = 1 /\ task[t].nLogin = 0
       /\ tokens.account_id # EmptyStr /\ tokens.device_serial # EmptyStr
       /\ tokens.cf_cookie # EmptyStr
       /\ tokens.access_token = issued
       /\ hist.rfBody # None /\ hist.rfBody.scope # EmptyStr

\* C32: a step in which login() succeeded and replaced an existing TokenInfo
\* gives the new TokenInfo the cf_cookie that was stored just before the
\* replacement, whichever call stored it; a first TokenInfo has no cookie.
C32_LoginKeepsCookie ==
    [][\A t \in Tasks :
          (task[t].pc = "lg_devices" /\ [e |-> "login_ok", t |-> t] \in hist'.evs)
          => /\ tokens' # None
             /\ tokens'.access_token = task[t].tr.at
             /\ tokens'.cf_cookie = IF tokens # None THEN tokens.cf_cookie
                                    ELSE EmptyStr
             /\ file'.cf_cookie = tokens'.cf_cookie]_vars

\* a login started by a 401 ended with a cookie that another call's response
\* had set after that login was entered
C32_Witness ==
    \E t \in Tasks :
       /\ [e |-> "login_ok", t |-> t] \in hist.evs
       /\ task[t].pc = "rq_retry" /\ task[t].seen = EmptyStr
       /\ task[t].cfAtStart = "__cf_bm=c1"
       /\ tokens.cf_cookie = "__cf_bm=c2"
       /\ tokens.access_token = task[t].loginTok

\* C33: a write of the token file by the MyQAPI instance never replaces the
\* access token or the refresh token in the file by an older one (tokens are
\* numbered in the order of their issue).
C33_NoLostUpdate ==
    [][(/\ file' # file
        /\ [e |-> "file_written", t |-> 0] \notin hist'.evs
        /\ file' # NoFile)
       => /\ file'.access_token >= Get(file, "access_token", NoToken)
          /\ file'.refresh_token >= Get(file, "refresh_token", NoToken)]_vars

\* C34: _load_tokens of what _save_tokens wrote gives back the TokenInfo in
\* all seven fields, for every TokenInfo the instance comes to hold; and a step
\* in which a login or a refresh succeeded, or a response rotated the cookie,
\* leaves the file equal to the TokenInfo in memory.
C34_SaveLoadRoundTrip ==
    [][/\ tokens' # None => Load(Dump(tokens'), now') = tokens'
       /\ \A t \in Tasks :
             (\/ [e |-> "login_ok", t |-> t] \in hist'.evs
              \/ [e |-> "refresh_ok", t |-> t] \in hist'.evs
              \/ (task[t].pc = "rq_wait" /\ task'[t].nResp > task[t].nResp
                     /\ task'[t].seen # EmptyStr))
             => /\ tokens' # None
                /\ file' = Dump(tokens')
                /\ Load(file', now') = tokens']_vars

\* a refresh has just stored a narrowed scope next to a cookie, and the file
\* reads back as the token in memory
C34_Witness ==
    /\ \E t \in Tasks : [e |-> "refresh_ok", t |-> t] \in hist.evs
    /\ tokens # None
    /\ tokens.token_scope = NarrowScope /\ tokens.cf_cookie # EmptyStr
    /\ tokens.access_token # tokens.refresh_token
    /\ Load(file, now) = tokens

\* a response has just rotated the cookie of a token that a login stored
C34_WitnessRotation ==
    \E t \in Tasks :
       /\ task[t].pc \in {"rq_retry", "done"} /\ task[t].nResp = 1
       /\ task[t].seen # EmptyStr /\ tokens # None
       /\ tokens.cf_cookie = task[t].seen
       /\ Load(file, now) = tokens

\* C35: no decoding step raises; a body declared gzip, deflate or br that
\* cannot be unpacked, and a body with no or an unknown encoding, come out of
\* decompress_body and of the decoding step of _request as the bytes that went
\* in, and _request then goes on to its status handling.
C35_DecodeNeverRaises ==
    /\ hist.dec # None =>
          /\ ~hist.dec.raised
          /\ (hist.dec.enc \notin Codecs
               \/ Decompress(hist.dec.enc, hist.dec.wire, hist.dec.brotli).raised)
                => hist.dec.out = hist.dec.wire
    /\ \A t \in Tasks :
          (task[t].pc = "done" /\ task[t].nResp > 0)
             => task[t].ret \in {"ok", "accepted", "api_error", "bad_body"}

\* a body declared br that is not brotli data went through the proxy unchanged
C35_Witness ==
    /\ hist.dec # None /\ hist.dec.by = "proxy"
    /\ hist.dec.enc = "br" /\ hist.dec.wire = Packed("gzip") /\ hist.dec.brotli
    /\ hist.dec.out = Packed("gzip")

\* a body declared gzip that is not gzip data reached the end of _request
C35_WitnessRequest ==
    /\ hist.dec # None /\ hist.dec.by = "request"
    /\ hist.dec.enc = "gzip" /\ hist.dec.wire = Junk /\ hist.dec.out = Junk
    /\ \E t \in Tasks : task[t].pc = "done" /\ task[t].ret = "bad_body"

\* C36: a PUT of POST /open was sent only after the door state read by the
\* same request was neither 'open' nor 'opening', and then it is the open
\* command; likewise for POST /close with 'closed' and 'closing'; a request
\* that read one of those states is answered 200 and has sent no command.
C36_CommandOnlyWhenNeeded ==
    \A t \in Tasks :
       /\ (task[t].ep = "open" /\ (task[t].puts > 0 \/ task[t].cmd # "none"))
             => task[t].door \in DoorStates \ {"open", "opening"}
                /\ task[t].cmd = "open"
       /\ (task[t].ep = "close" /\ (task[t].puts > 0 \/ task[t].cmd # "none"))
             => task[t].door \in DoorStates \ {"closed", "closing"}
                /\ task[t].cmd = "close"
       /\ (\/ task[t].ep = "open" /\ task[t].door \in {"open", "opening"}
           \/ task[t].ep = "close" /\ task[t].door \in {"closed", "closing"})
             => /\ task[t].puts = 0 /\ task[t].cmd = "none"
                /\ task[t].pc = "done" /\ task[t].http = 200

\* POST /open on a closed door has sent its PUT and was answered 200
C36_Witness ==
    \E t \in Tasks :
       /\ task[t].ep = "open" /\ task[t].pc = "done" /\ task[t].http = 200
       /\ task[t].door = "closed" /\ task[t].cmd = "open" /\ task[t].puts = 1

\* POST /close on a closing door was answered 200 without a command
C36_WitnessNoCommand ==
    \E t \in Tasks :
       /\ task[t].ep = "close" /\ task[t].pc = "done" /\ task[t].http = 200
       /\ task[t].door = "closing" /\ task[t].puts = 0

\* C37 (as stated): every POST /toggle that reached its handler has sent
\* exactly one command, close for an open door and open for a closed one.
C37_ToggleOneCommand ==
    \A t \in Tasks :
       (task[t].ep = "toggle" /\ task[t].pc = "done"
          /\ task[t].http \notin {0, 401, 429})
       => /\ task[t].puts = 1
          /\ task[t].door = "open" => task[t].cmd = "close"
          /\ task[t].door = "closed" => task[t].cmd = "open"

\* C37 (amended): POST /toggle calls one command operation once it has read the
\* door state: close for 'open' and 'opening', open for any other state. A
\* request answered 200 has sent the PUT of that command once, or twice when
\* the first PUT was answered 401 and sent again after the re-login; a request
\* that failed has sent it at most twice and possibly not at all.
C37_ToggleOneOperation ==
    \A t \in Tasks :
       task[t].ep = "toggle" =>
          /\ task[t].puts <= 2
          /\ task[t].puts = 2 => task[t].st1 = 401
          /\ (task[t].puts > 0 \/ task[t].cmd # "none")
                => /\ task[t].door \in DoorStates
                   /\ task[t].cmd = IF task[t].door \in {"open", "opening"}
                                    THEN "close" ELSE "open"
          /\ (task[t].pc = "done" /\ task[t].http = 200)
                => task[t].puts \in {1, 2} /\ task[t].cmd # "none"

\* POST /toggle on an open door has sent one close command and was answered 200
C37_Witness ==
    \E t \in Tasks :
       /\ task[t].ep = "toggle" /\ task[t].pc = "done" /\ task[t].http = 200
       /\ task[t].door = "open" /\ task[t].cmd = "close" /\ task[t].puts = 1

\* C38: per client at most RateLimitRequests accepted requests lie in the last
\* RateLimitWindow seconds, at every time; a request is refused with 429
\* exactly when that many accepted ones lie in the window, and it is then not
\* recorded (the refused requests before it play no part); a request changes
\* neither the list nor the count of another client.
C38_SlidingWindow ==
    [][/\ \A ip \in ClientIps : Len(served'.recent[ip]) <= RateLimitRequests
       /\ served'.flip # served.flip =>
            LET ip == served'.ip
                full == Len(served.recent[ip]) >= RateLimitRequests
            IN /\ served'.status = IF full THEN 429 ELSE 200
               /\ full => /\ served'.recent[ip] = served.recent[ip]
                           /\ rate_limit_store'[ip] = served.recent[ip]
               /\ ~full => /\ served'.recent[ip] = Append(served.recent[ip], now)
                            /\ rate_limit_store'[ip] = served'.recent[ip]
               /\ \A o \in ClientIps \ {ip} :
                     /\ rate_limit_store'[o] = rate_limit_store[o]
                     /\ served'.recent[o] = served.recent[o]]_vars

\* a client that was refused with a full window is accepted again once the
\* oldest accepted requests have left the window, while requests made half a
\* window ago still count; another client was served meanwhile
C38_Witness ==
    /\ now = 2 * RateStep
    /\ served.ip = "ip1" /\ served.status = 200
    /\ Len(served.recent["ip1"]) = RateLimitRequests
    /\ served.recent["ip1"][1] = RateStep
    /\ served.recent["ip1"][RateLimitRequests] = now
    /\ Len(served.recent["ip2"]) > 0

\* the eleventh request inside one window was refused
C38_WitnessRefused ==
    /\ served.ip = "ip1" /\ served.status = 429
    /\ Len(rate_limit_store["ip1"]) = RateLimitRequests
    /\ Len(rate_limit_store["ip2"]) > 0 /\ Len(rate_limit_store["ip2"]) < RateLimitRequests

\* C39: a request to a protected endpoint whose X-API-Key header is missing or
\* is not the configured key is answered 401 at once: no login, no refresh
\* and no request to the provider is started, and the tokens and the token
\* file stay as they are.
C39_BadKeyRejected ==
    [][\A t \in Tasks :
          (task[t].pc = "idle" /\ task'[t].ep # "none" /\ task'[t].keyBad)
          => /\ task'[t].pc = "done" /\ task'[t].http = 401
             /\ task'[t].nSend = 0 /\ task'[t].nLogin = 0
             /\ task'[t].nRefresh = 0
             /\ tokens' = tokens /\ file' = file]_vars

\* C40: a flow whose request host contains neither 'myq-cloud.com' nor
\* 'myq.com' leaves the proxy's token dictionary, its capture counter and the
\* token file as they were; whenever one of the three changes, the flow was
\* one of a host that contains one of the two names.
C40_OnlyMyQFlows ==
    [][/\ [e |-> "flow_other", t |-> 0] \in hist'.evs
            => /\ capture' = capture /\ file' = file
               /\ hist'.capture_count = hist.capture_count
       /\ (\/ capture' # capture \/ file' # file
           \/ hist'.capture_count # hist.capture_count)
            => [e |-> "flow_myq", t |-> 0] \in hist'.evs]_vars

\* after three captures a flow of another host has passed and changed nothing
C40_Witness ==
    /\ [e |-> "flow_other", t |-> 0] \in hist.evs
    /\ hist.capture_count = MaxCaptures
    /\ file = capture
    /\ Get(capture, "cf_cookie", EmptyStr) # EmptyStr
    /\ Get(capture, "access_token", NoToken) = issued /\ issued > 1

====
